---- MODULE Spec2Model ----
(***************************************************************************)
(* A model of the GitLab secrets manager: the command handlers of          *)
(* gitlab_secrets.py (create, update, read, delete, list, download) and    *)
(* the client of gitlab_client.py (paged listing, payload construction).   *)
(*                                                                         *)
(* Python values are tagged records, strings are sequences of one-letter   *)
(* strings, dictionaries are sequences of <<key, value>> pairs in          *)
(* insertion order.                                                        *)
(***************************************************************************)
EXTENDS Integers, Sequences, FiniteSets, TLC

VARIABLES
    args,           \* the command line: command name, arguments and options
    doc,            \* the input file of a bulk run: its suffix and parsed content
    pc,             \* position of the running command
    variables,      \* create/update: the entry list read from the file
    idx,            \* create/update: 1-based position of the for loop
    var_key,        \* create/update: the local var_key (unbound before line 263/570)
    pending,        \* create: the conflicting create call awaiting its upsert update
    success_count,  \* create/update: success_count
    failed_count,   \* create/update: failed_count
    calls,          \* every request sent to the remote, in order
    replies,        \* the remote's answer to each request of calls
    console,        \* what the command printed, in order
    page,           \* GitLabClient.list_variables: page
    all_variables,  \* GitLabClient.list_variables: all_variables
    headers,        \* the X-Total-Pages header of every response received
    remote,         \* what the remote answers to a page request
    listed,         \* list/download: the records after filter and sort
    written,        \* download: the file written (path, format, content)
    outcome         \* a function called on its own: what it returned or raised

vars == <<args, doc, pc, variables, idx, var_key, pending, success_count,
          failed_count, calls, replies, console, page, all_variables, headers,
          remote, listed, written, outcome>>

(***************************************************************************)
(* Python values                                                           *)
(***************************************************************************)
PyNone == [t |-> "none"]
PyBool(b) == [t |-> "bool", b |-> b]
PyInt(n) == [t |-> "int", n |-> n]
PyStr(s) == [t |-> "str", s |-> s]
PyList(l) == [t |-> "list", l |-> l]
PyDict(items) == [t |-> "dict", items |-> items]
Unbound == [t |-> "unbound"]

PyTrue == PyBool(TRUE)
PyFalse == PyBool(FALSE)

\* bool(v): Python truthiness
Truthy(v) ==
    CASE v.t = "none" -> FALSE
      [] v.t = "bool" -> v.b
      [] v.t = "int" -> v.n # 0
      [] v.t = "str" -> v.s # <<>>
      [] v.t = "list" -> v.l # <<>>
      [] v.t = "dict" -> v.items # <<>>

\* key in d, for a dict d
HasKey(d, k) == \E i \in 1..Len(d.items) : d.items[i][1] = k

\* d.get(k, default), for a dict d
DictGet(d, k, default) ==
    IF HasKey(d, k)
    THEN d.items[CHOOSE i \in 1..Len(d.items) : d.items[i][1] = k][2]
    ELSE default

\* d[k] = v, for a dict d: an existing key keeps its position
DictSet(d, k, v) ==
    IF HasKey(d, k)
    THEN PyDict([i \in 1..Len(d.items) |->
                    IF d.items[i][1] = k THEN <<k, v>> ELSE d.items[i]])
    ELSE PyDict(Append(d.items, <<k, v>>))

\* {**a, **b}: a updated with the pairs of b, in order
RECURSIVE DictUpdate(_, _)
DictUpdate(a, b) ==
    IF b.items = <<>> THEN a
    ELSE DictUpdate(DictSet(a, b.items[1][1], b.items[1][2]), PyDict(Tail(b.items)))

EmptyDict == PyDict(<<>>)

\* the names the code uses as dictionary keys
K_key == PyStr(<<"k", "e", "y">>)
K_value == PyStr(<<"v", "a", "l", "u", "e">>)
K_protected == PyStr(<<"p", "r", "o", "t", "e", "c", "t", "e", "d">>)
K_masked == PyStr(<<"m", "a", "s", "k", "e", "d">>)
K_raw == PyStr(<<"r", "a", "w">>)
K_environment_scope ==
    PyStr(<<"e", "n", "v", "i", "r", "o", "n", "m", "e", "n", "t", "_",
            "s", "c", "o", "p", "e">>)
K_variables == PyStr(<<"v", "a", "r", "i", "a", "b", "l", "e", "s">>)

Star == PyStr(<<"*">>)
EmptyStr == PyStr(<<>>)

(***************************************************************************)
(* Characters                                                              *)
(***************************************************************************)
UpperChars ==
    <<"A", "B", "C", "D", "E", "F", "G", "H", "I", "J", "K", "L", "M", "N",
      "O", "P", "Q", "R", "S", "T", "U", "V", "W", "X", "Y", "Z">>
LowerChars ==
    <<"a", "b", "c", "d", "e", "f", "g", "h", "i", "j", "k", "l", "m", "n",
      "o", "p", "q", "r", "s", "t", "u", "v", "w", "x", "y", "z">>
DigitChars == <<"0", "1", "2", "3", "4", "5", "6", "7", "8", "9">>

Range(s) == {s[i] : i \in 1..Len(s)}

Letters == Range(UpperChars) \cup Range(LowerChars)
Digits == Range(DigitChars)
\* [A-Za-z0-9_]
WordChars == Letters \cup Digits \cup {"_"}
\* \s
SpaceChars == {" ", "\t", "\n"}

IsSpace(c) == c \in SpaceChars
IsWord(c) == c \in WordChars

\* The characters of the inputs, in code point order
CodePoints ==
    <<"\t", "\n", " ", "!", "\"", "#", "$", "%", "&", "'", "(", ")",
       "*", "+", ",", "-", ".", "/", "0", "1", "2", "3", "4", "5",
       "6", "7", "8", "9", ":", ";", "<", "=", ">", "?", "@", "A",
       "B", "C", "D", "E", "F", "G", "H", "I", "J", "K", "L", "M",
       "N", "O", "P", "Q", "R", "S", "T", "U", "V", "W", "X", "Y",
       "Z", "[", "\\", "]", "^", "_", "a", "b", "c", "d", "e",
       "f", "g", "h", "i", "j", "k", "l", "m", "n", "o", "p", "q",
       "r", "s", "t", "u", "v", "w", "x", "y", "z", "{", "|", "}",
       "~">>

Ord(c) == CHOOSE i \in 1..Len(CodePoints) : CodePoints[i] = c

(***************************************************************************)
(* validate_variable_key                                                   *)
(***************************************************************************)
\* key.strip() == "": every character is whitespace
AllSpace(s) == \A i \in 1..Len(s) : IsSpace(s[i])

\* re.search(r'\s', key)
HasSpace(s) == \E i \in 1..Len(s) : IsSpace(s[i])

\* re.match(r'^[A-Za-z0-9_]+$', key); '$' also matches before a final newline
MatchesKeyPattern(s) ==
    \/ /\ s # <<>>
       /\ \A i \in 1..Len(s) : IsWord(s[i])
    \/ /\ Len(s) >= 2
       /\ s[Len(s)] = "\n"
       /\ \A i \in 1..(Len(s) - 1) : IsWord(s[i])

\* re.findall(r'[^A-Za-z0-9_]', key), as a set
InvalidChars(s) == {s[i] : i \in 1..Len(s)} \ WordChars

\* sorted(S), for a set S of characters
RECURSIVE SortedChars(_)
SortedChars(S) ==
    IF S = {} THEN <<>>
    ELSE LET first == CHOOSE c \in S : \A d \in S : Ord(c) <= Ord(d)
         IN  <<first>> \o SortedChars(S \ {first})

\* The characters the message lists, as re.findall returns them
unique_chars_as_found(s) == SelectSeq(s, LAMBDA c : c \notin WordChars)

\* sorted(set(invalid_chars)): the characters the message lists
unique_chars(s) == SortedChars(InvalidChars(s))

Valid == [exc |-> "none", kind |-> "valid", chars |-> <<>>]
Raised(exc, kind, chars) == [exc |-> exc, kind |-> kind, chars |-> chars]

\* validate_variable_key without the whitespace check of line 74
validate_variable_key_no_space_check(key) ==
    IF ~Truthy(key) THEN Raised("ValueError", "empty", <<>>)
    ELSE IF key.t # "str" THEN Raised("AttributeError", "not_a_string", <<>>)
    ELSE IF AllSpace(key.s) THEN Raised("ValueError", "empty", <<>>)
    ELSE IF ~MatchesKeyPattern(key.s)
         THEN IF InvalidChars(key.s) # {}
              THEN Raised("ValueError", "characters", unique_chars(key.s))
              ELSE Raised("ValueError", "generic", <<>>)
    ELSE Valid

\* What validate_variable_key(key) does: returns True (exc = "none") or raises.
validate_variable_key(key) ==
    IF ~Truthy(key) THEN Raised("ValueError", "empty", <<>>)
    ELSE IF key.t # "str" THEN Raised("AttributeError", "not_a_string", <<>>)
    ELSE IF AllSpace(key.s) THEN Raised("ValueError", "empty", <<>>)
    ELSE IF HasSpace(key.s) THEN Raised("ValueError", "spaces", <<>>)
    ELSE IF ~MatchesKeyPattern(key.s)
         THEN IF InvalidChars(key.s) # {}
              THEN Raised("ValueError", "characters", unique_chars(key.s))
              ELSE Raised("ValueError", "generic", <<>>)
    ELSE Valid

(***************************************************************************)
(* GitLabClient: the requests create_variable and update_variable send     *)
(***************************************************************************)
Request(op, key, data, entry) ==
    [op |-> op, key |-> key, data |-> data, entry |-> entry]

\* data = {'key': key, 'value': value, **kwargs}; POST
create_variable(key, value, kwargs, entry) ==
    Request("create_variable", key,
            DictUpdate(PyDict(<<<<K_key, key>>, <<K_value, value>>>>), kwargs),
            entry)

\* data = {}; value only if it is not None; data.update(kwargs); PUT
update_variable(key, value, kwargs, entry) ==
    Request("update_variable", key,
            DictUpdate(IF value # PyNone
                       THEN PyDict(<<<<K_value, value>>>>)
                       ELSE EmptyDict,
                       kwargs),
            entry)

get_variable(key) == Request("get_variable", key, EmptyDict, 0)

delete_variable(key) == Request("delete_variable", key, EmptyDict, 0)

(***************************************************************************)
(* What the remote can answer to a create or update request.               *)
(* raised: an exception left the client call; has_response: the exception  *)
(* has a 'response' attribute; status: response.status_code, 0 when        *)
(* response is None; conflict_text: str(exception) contains '409' or       *)
(* 'Conflict'.                                                             *)
(***************************************************************************)
CONFLICT == 409
NOT_FOUND == 404

Answer(raised, has_response, status, conflict_text) ==
    [raised |-> raised, has_response |-> has_response, status |-> status,
     conflict_text |-> conflict_text]

Success == Answer(FALSE, FALSE, 0, FALSE)
HttpConflict == Answer(TRUE, TRUE, CONFLICT, TRUE)
HttpNotFound == Answer(TRUE, TRUE, NOT_FOUND, FALSE)
HttpBadRequest == Answer(TRUE, TRUE, 400, FALSE)
ConnectionError == Answer(TRUE, TRUE, 0, FALSE)
PlainConflictText == Answer(TRUE, FALSE, 0, TRUE)
PlainError == Answer(TRUE, FALSE, 0, FALSE)

Answers ==
    {Success, HttpConflict, HttpNotFound, HttpBadRequest, ConnectionError,
     PlainConflictText, PlainError}

\* is_conflict comparing the status with 400 instead of 409
is_conflict_bad_request(create_error) ==
    IF create_error.has_response
    THEN IF create_error.status = 0 THEN "AttributeError"
         ELSE IF create_error.status = 400 THEN "True" ELSE "False"
    ELSE IF create_error.conflict_text THEN "True" ELSE "False"

\* Lines 311-316 / 379-384: how the except clause classifies create_error.
\* "AttributeError" when create_error.response is None.
is_conflict(create_error) ==
    IF create_error.has_response
    THEN IF create_error.status = 0 THEN "AttributeError"
         ELSE IF create_error.status = CONFLICT THEN "True" ELSE "False"
    ELSE IF create_error.conflict_text THEN "True" ELSE "False"

(***************************************************************************)
(* Bulk create and bulk update: the merge of an entry's fields with the    *)
(* command line options                                                    *)
(***************************************************************************)
\* create_flag with the command line flag taking precedence over the entry
create_flag_cli_first(kwargs, var, name, cli) ==
    IF Truthy(cli) THEN DictSet(kwargs, name, PyTrue)
    ELSE IF DictGet(var, name, PyNone) # PyNone
    THEN DictSet(kwargs, name, DictGet(var, name, PyNone))
    ELSE kwargs

\* create_flag sending the command line flag whenever the entry has none
create_flag_always(kwargs, var, name, cli) ==
    IF DictGet(var, name, PyNone) # PyNone
    THEN DictSet(kwargs, name, DictGet(var, name, PyNone))
    ELSE DictSet(kwargs, name, cli)

\* Lines 282-285 (also 287-290, 292-295): one boolean flag of bulk create
create_flag(kwargs, var, name, cli) ==
    IF DictGet(var, name, PyNone) # PyNone
    THEN DictSet(kwargs, name, DictGet(var, name, PyNone))
    ELSE IF Truthy(cli) THEN DictSet(kwargs, name, PyTrue) ELSE kwargs

\* Lines 298-301: environment_scope of bulk create
create_scope(kwargs, var, cli) ==
    IF DictGet(var, K_environment_scope, PyNone) # PyNone
    THEN DictSet(kwargs, K_environment_scope,
                 DictGet(var, K_environment_scope, PyNone))
    ELSE IF Truthy(cli) /\ cli # Star
         THEN DictSet(kwargs, K_environment_scope, cli)
         ELSE kwargs

\* Lines 281-301
create_kwargs(var, a) ==
    create_scope(
        create_flag(
            create_flag(
                create_flag(EmptyDict, var, K_protected, a.protected),
                var, K_masked, a.masked),
            var, K_raw, a.raw),
        var, a.environment_scope)

\* Lines 589-592 (also 594-597, 599-602): one boolean flag of bulk update
update_flag(kwargs, var, name, cli) ==
    IF DictGet(var, name, PyNone) # PyNone
    THEN DictSet(kwargs, name, DictGet(var, name, PyNone))
    ELSE IF cli # PyNone THEN DictSet(kwargs, name, cli) ELSE kwargs

\* Lines 605-608: environment_scope of bulk update
update_scope(kwargs, var, cli) ==
    IF DictGet(var, K_environment_scope, PyNone) # PyNone
    THEN DictSet(kwargs, K_environment_scope,
                 DictGet(var, K_environment_scope, PyNone))
    ELSE IF Truthy(cli)
         THEN DictSet(kwargs, K_environment_scope, cli)
         ELSE kwargs

\* Lines 588-608
update_kwargs(var, a) ==
    update_scope(
        update_flag(
            update_flag(
                update_flag(EmptyDict, var, K_protected, a.protected),
                var, K_masked, a.masked),
            var, K_raw, a.raw),
        var, a.environment_scope)

(***************************************************************************)
(* Reading the input file of a bulk run (lines 195-254 and 502-561)        *)
(***************************************************************************)
\* str.lstrip(), str.rstrip(), str.strip()
RECURSIVE LStrip(_)
LStrip(s) == IF s # <<>> /\ IsSpace(s[1]) THEN LStrip(Tail(s)) ELSE s

RECURSIVE RStrip(_)
RStrip(s) ==
    IF s # <<>> /\ IsSpace(s[Len(s)]) THEN RStrip(SubSeq(s, 1, Len(s) - 1)) ELSE s

Strip(s) == LStrip(RStrip(s))

\* Position of the first c in s, 0 when there is none
FirstIndex(s, c) ==
    IF \E i \in 1..Len(s) : s[i] = c
    THEN CHOOSE i \in 1..Len(s) : s[i] = c /\ \A j \in 1..(i - 1) : s[j] # c
    ELSE 0

\* for line in f: the lines of the text, without their terminators
RECURSIVE FileLines(_)
FileLines(s) ==
    IF s = <<>> THEN <<>>
    ELSE LET n == FirstIndex(s, "\n")
         IN  IF n = 0 THEN <<s>>
             ELSE <<SubSeq(s, 1, n - 1)>> \o FileLines(SubSeq(s, n + 1, Len(s)))

\* {'key': k, 'value': v}
KeyValue(k, v) == PyDict(<<<<K_key, k>>, <<K_value, v>>>>)

\* Lines 239-247: the entries one line of a .env file adds
env_line(raw_line) ==
    LET line == Strip(raw_line)
        eq == FirstIndex(line, "=")
    IN  IF line = <<>> \/ line[1] = "#" THEN <<>>
        ELSE IF eq = 0 THEN <<>>
        ELSE <<KeyValue(PyStr(Strip(SubSeq(line, 1, eq - 1))),
                        PyStr(Strip(SubSeq(line, eq + 1, Len(line)))))>>

\* Lines 237-247: the entry list of a .env file
RECURSIVE env_entries(_)
env_entries(lines) ==
    IF lines = <<>> THEN <<>>
    ELSE env_line(lines[1]) \o env_entries(Tail(lines))

\* The variables of a parsed document when the 'variables' key is not looked
\* for (lines 206-207 / 224-225 left out)
structured_variables_pairs_only(data) ==
    IF data.t = "dict"
    THEN PyList([i \in 1..Len(data.items) |->
                    KeyValue(data.items[i][1], data.items[i][2])])
    ELSE IF data.t = "list" THEN data
    ELSE [t |-> "invalid"]

\* Lines 205-215 / 223-233: the variables of a parsed YAML or JSON document;
\* "invalid" when the top-level value is neither a mapping nor a sequence
structured_variables(data) ==
    IF data.t = "dict"
    THEN IF HasKey(data, K_variables)
         THEN DictGet(data, K_variables, PyNone)
         ELSE PyList([i \in 1..Len(data.items) |->
                         KeyValue(data.items[i][1], data.items[i][2])])
    ELSE IF data.t = "list" THEN data
    ELSE [t |-> "invalid"]

\* The loader with every file that is not YAML or JSON read as an env file
\* (the test of line 235 and the else branch of lines 248-250 left out)
load_variables_any_extension(d) ==
    IF d.suffix \in {".yml", ".yaml", ".json"}
    THEN IF d.data.t = "unparseable" THEN [t |-> "exception"]
         ELSE structured_variables(d.data)
    ELSE PyList(env_entries(FileLines(d.data.s)))

\* Lines 199-250: the value bound to 'variables', or what stopped the command:
\* "unsupported" (line 249), "invalid" (lines 214, 232), "exception" (the
\* parser raised)
load_variables(d) ==
    IF d.suffix \in {".yml", ".yaml", ".json"}
    THEN IF d.data.t = "unparseable" THEN [t |-> "exception"]
         ELSE structured_variables(d.data)
    ELSE IF d.suffix = ".env" \/ d.env_in_name
         THEN PyList(env_entries(FileLines(d.data.s)))
    ELSE [t |-> "unsupported"]

\* What 'for var in variables' iterates over, for a truthy value with a len()
Iterate(v) ==
    CASE v.t = "list" -> v.l
      [] v.t = "dict" -> [i \in 1..Len(v.items) |-> v.items[i][1]]
      [] v.t = "str" -> [i \in 1..Len(v.s) |-> PyStr(<<v.s[i]>>)]

Line(msg, entry, key) == [msg |-> msg, entry |-> entry, key |-> key]

\* "Creating N variables..." / "Updating N variables..."
Count(n) == [msg |-> "count", entry |-> 0, key |-> PyNone, n |-> n]

Tally(s, f) ==
    [msg |-> "tally", entry |-> 0, key |-> PyNone, success |-> s, failed |-> f]

BulkFrame ==
    UNCHANGED <<args, doc, page, all_variables, headers, remote, listed, written, outcome>>

\* create --file / update --file, up to the start of the loop
\* (lines 195-259 and 502-566)
LoadFile ==
    /\ pc = "start"
    /\ args.file
    /\ args.cmd \in {"create", "update"}
    /\ LET v == load_variables(doc)
           stop(msg) ==
               /\ pc' = "done"
               /\ console' = Append(console, Line(msg, 0, PyNone))
               /\ UNCHANGED <<variables, idx>>
       IN  IF v.t \in {"unsupported", "invalid"} THEN stop(v.t)
           ELSE IF v.t = "exception" THEN stop("error")
           ELSE IF ~Truthy(v) THEN stop("no_variables")
           \* len(variables) raises TypeError: caught at line 406 / 668
           ELSE IF v.t \notin {"list", "dict", "str"} THEN stop("error")
           ELSE /\ pc' = "loop"
                /\ variables' = Iterate(v)
                /\ idx' = 1
                /\ console' = Append(console, Count(Len(Iterate(v))))
    /\ UNCHANGED <<var_key, pending, success_count, failed_count, calls, replies>>
    /\ BulkFrame

(***************************************************************************)
(* The loops of bulk create (lines 261-336) and bulk update (568-621)      *)
(***************************************************************************)
\* NextEntry printing the line of the record above the lines printed so far
NextEntry_reports_on_top(line, s, f) ==
    /\ success_count' = s
    /\ failed_count' = f
    /\ idx' = idx + 1
    /\ pending' = PyNone
    /\ IF idx = Len(variables)
       THEN /\ console' = <<line>> \o console \o <<Tally(s, f)>>
            /\ pc' = "done"
       ELSE /\ console' = <<line>> \o console
            /\ pc' = "loop"

\* The end of one iteration: the line printed for the entry and the counts;
\* after the last entry the tally is printed (lines 332-336 / 617-621).
NextEntry(line, s, f) ==
    /\ success_count' = s
    /\ failed_count' = f
    /\ idx' = idx + 1
    /\ pending' = PyNone
    /\ IF idx = Len(variables)
       THEN /\ console' = console \o <<line, Tally(s, f)>>
            /\ pc' = "done"
       ELSE /\ console' = Append(console, line)
            /\ pc' = "loop"

\* 'except Exception as e' of the loop (lines 328-330 / 613-615): the message
\* reads var_key, which is unbound when no iteration has assigned it yet; the
\* UnboundLocalError leaves the loop and is caught at line 406 / 668.
EntryException(vk) ==
    IF vk = Unbound
    THEN /\ pc' = "done"
         /\ console' = Append(console, Line("error", 0, PyNone))
         /\ UNCHANGED <<idx, pending, success_count, failed_count>>
    ELSE NextEntry(Line("failed", idx, vk), success_count, failed_count + 1)

\* Lines 262-278 / 569-585: what the checks before the request decide for
\* entry var: "exception" (var.get or the validator raised something other
\* than ValueError), "missing", "invalid" or "valid"
entry_check(var) ==
    IF var.t # "dict" THEN "exception"
    ELSE LET k == DictGet(var, K_key, EmptyStr)
             r == validate_variable_key(k)
         IN  IF ~Truthy(k) THEN "missing"
             ELSE IF r.exc = "ValueError" THEN "invalid"
             ELSE IF r.exc # "none" THEN "exception"
             ELSE "valid"

\* One iteration of the loop of bulk create, up to the answer to the create
\* request (lines 262-318, 326-330)
BulkCreateEntry ==
    /\ pc = "loop"
    /\ args.cmd = "create"
    /\ args.file
    /\ LET var == variables[idx]
           chk == entry_check(var)
       IN  IF var.t # "dict"
           THEN /\ EntryException(var_key)
                /\ UNCHANGED <<var_key, calls, replies>>
           ELSE LET k == DictGet(var, K_key, EmptyStr)
                    v == DictGet(var, K_value, EmptyStr)
                    kwargs == create_kwargs(var, args)
                IN  /\ var_key' = k
                    /\ IF chk = "missing"
                       THEN /\ NextEntry(Line("missing_key", idx, k),
                                         success_count, failed_count + 1)
                            /\ UNCHANGED <<calls, replies>>
                       ELSE IF chk = "invalid"
                       THEN /\ NextEntry(Line("invalid_key", idx, k),
                                         success_count, failed_count + 1)
                            /\ UNCHANGED <<calls, replies>>
                       ELSE IF chk = "exception"
                       THEN /\ EntryException(k)
                            /\ UNCHANGED <<calls, replies>>
                       ELSE /\ calls' = Append(calls, create_variable(k, v, kwargs, idx))
                            /\ \E a \in Answers :
                                 /\ replies' = Append(replies, a)
                                 /\ IF ~a.raised
                                    THEN NextEntry(Line("created", idx, k),
                                                   success_count + 1, failed_count)
                                    ELSE IF is_conflict(a) = "True" /\ args.upsert
                                    THEN /\ pc' = "upsert"
                                         /\ pending' = [key |-> k, value |-> v,
                                                        kwargs |-> kwargs]
                                         /\ UNCHANGED <<idx, success_count,
                                                        failed_count, console>>
                                    ELSE EntryException(k)
    /\ BulkFrame
    /\ UNCHANGED variables

\* The update request of an upsert and its answer (lines 319-325)
BulkCreateUpsert ==
    /\ pc = "upsert"
    /\ args.cmd = "create"
    /\ args.file
    /\ calls' = Append(calls, update_variable(pending.key, pending.value,
                                              pending.kwargs, idx))
    /\ \E a \in Answers :
         /\ replies' = Append(replies, a)
         /\ IF ~a.raised
            THEN NextEntry(Line("updated", idx, pending.key),
                           success_count + 1, failed_count)
            ELSE NextEntry(Line("failed", idx, pending.key),
                           success_count, failed_count + 1)
    /\ BulkFrame
    /\ UNCHANGED <<variables, var_key>>

\* One iteration of the loop of bulk update (lines 569-615)
BulkUpdateEntry ==
    /\ pc = "loop"
    /\ args.cmd = "update"
    /\ args.file
    /\ LET var == variables[idx]
           chk == entry_check(var)
       IN  IF var.t # "dict"
           THEN /\ EntryException(var_key)
                /\ UNCHANGED <<var_key, calls, replies>>
           ELSE LET k == DictGet(var, K_key, EmptyStr)
                    v == DictGet(var, K_value, EmptyStr)
                    kwargs == update_kwargs(var, args)
                IN  /\ var_key' = k
                    /\ IF chk = "missing"
                       THEN /\ NextEntry(Line("missing_key", idx, k),
                                         success_count, failed_count + 1)
                            /\ UNCHANGED <<calls, replies>>
                       ELSE IF chk = "invalid"
                       THEN /\ NextEntry(Line("invalid_key", idx, k),
                                         success_count, failed_count + 1)
                            /\ UNCHANGED <<calls, replies>>
                       ELSE IF chk = "exception"
                       THEN /\ EntryException(k)
                            /\ UNCHANGED <<calls, replies>>
                       ELSE /\ calls' = Append(calls, update_variable(k, v, kwargs, idx))
                            /\ \E a \in Answers :
                                 /\ replies' = Append(replies, a)
                                 /\ IF ~a.raised
                                    THEN NextEntry(Line("updated", idx, k),
                                                   success_count + 1, failed_count)
                                    ELSE EntryException(k)
    /\ BulkFrame
    /\ UNCHANGED variables

(***************************************************************************)
(* The single-record commands                                              *)
(***************************************************************************)
SingleFrame ==
    UNCHANGED <<args, doc, variables, idx, var_key, success_count, failed_count,
                page, all_variables, headers, remote, listed, written, outcome>>

\* A command that ends after printing msg, without a request
Stop(msg) ==
    /\ pc' = "done"
    /\ console' = Append(console, Line(msg, 0, args.key))
    /\ UNCHANGED <<calls, replies, pending>>

\* A command that ends after one request and its answer
Finish(request, a, msg) ==
    /\ pc' = "done"
    /\ calls' = Append(calls, request)
    /\ replies' = Append(replies, a)
    /\ console' = Append(console, Line(msg, 0, args.key))
    /\ pending' = PyNone

\* Lines 352-368: the options of a single create
single_create_kwargs(a) ==
    LET k1 == IF Truthy(a.protected) THEN DictSet(EmptyDict, K_protected, PyTrue)
              ELSE EmptyDict
        k2 == IF Truthy(a.masked) THEN DictSet(k1, K_masked, PyTrue) ELSE k1
        k3 == IF Truthy(a.raw) THEN DictSet(k2, K_raw, PyTrue) ELSE k2
    IN  IF Truthy(a.environment_scope) /\ a.environment_scope # Star
        THEN DictSet(k3, K_environment_scope, a.environment_scope)
        ELSE k3

\* Lines 637-647: the options of a single update
single_update_kwargs(a) ==
    LET k1 == IF a.protected # PyNone THEN DictSet(EmptyDict, K_protected, a.protected)
              ELSE EmptyDict
        k2 == IF a.masked # PyNone THEN DictSet(k1, K_masked, a.masked) ELSE k1
        k3 == IF a.raw # PyNone THEN DictSet(k2, K_raw, a.raw) ELSE k2
    IN  IF Truthy(a.environment_scope)
        THEN DictSet(k3, K_environment_scope, a.environment_scope)
        ELSE k3

\* create KEY VALUE, up to the answer to the create request
\* (lines 338-391, 406-408)
Create ==
    /\ pc = "start"
    /\ args.cmd = "create"
    /\ ~args.file
    /\ IF ~Truthy(args.key) \/ ~Truthy(args.value) THEN Stop("usage")
       ELSE IF validate_variable_key(args.key).exc # "none" THEN Stop("invalid_key")
       ELSE \E a \in Answers :
              LET request == create_variable(args.key, args.value,
                                             single_create_kwargs(args), 0)
              IN  IF ~a.raised THEN Finish(request, a, "created")
                  ELSE IF is_conflict(a) = "True" /\ args.upsert
                  THEN /\ pc' = "upsert"
                       /\ calls' = Append(calls, request)
                       /\ replies' = Append(replies, a)
                       /\ pending' = [key |-> args.key, value |-> args.value,
                                      kwargs |-> single_create_kwargs(args)]
                       /\ UNCHANGED console
                  ELSE Finish(request, a, "error")
    /\ SingleFrame

\* The update request of a single upsert (lines 386-389, 406-408)
CreateUpsert ==
    /\ pc = "upsert"
    /\ args.cmd = "create"
    /\ ~args.file
    /\ \E a \in Answers :
         Finish(update_variable(pending.key, pending.value, pending.kwargs, 0), a,
                IF a.raised THEN "error" ELSE "updated")
    /\ SingleFrame

\* update KEY VALUE (lines 623-670)
Update ==
    /\ pc = "start"
    /\ args.cmd = "update"
    /\ ~args.file
    /\ IF ~Truthy(args.key) \/ ~Truthy(args.value) THEN Stop("usage")
       ELSE IF validate_variable_key(args.key).exc # "none" THEN Stop("invalid_key")
       ELSE \E a \in Answers :
              Finish(update_variable(args.key, args.value,
                                     single_update_kwargs(args), 0), a,
                     IF a.raised THEN "error" ELSE "updated")
    /\ SingleFrame

\* get_variable / delete_variable without the test of line 199 / 317
lookup_result_reraises(a) == IF ~a.raised THEN "found" ELSE "raised"

\* GitLabClient.get_variable and delete_variable (lines 190-202, 308-320):
\* "found", "not_found" (HTTP 404) or "raised"
lookup_result(a) ==
    IF ~a.raised THEN "found"
    ELSE IF a.has_response /\ a.status = NOT_FOUND THEN "not_found"
    ELSE "raised"

\* read KEY (lines 431-464)
Read ==
    /\ pc = "start"
    /\ args.cmd = "read"
    /\ IF validate_variable_key(args.key).exc # "none" THEN Stop("invalid_key")
       ELSE \E a \in Answers :
              Finish(get_variable(args.key), a,
                     CASE lookup_result(a) = "found" -> "details"
                       [] lookup_result(a) = "not_found" -> "not_found"
                       [] OTHER -> "error")
    /\ SingleFrame

\* delete KEY, confirmed (lines 693-712)
Delete ==
    /\ pc = "start"
    /\ args.cmd = "delete"
    /\ IF validate_variable_key(args.key).exc # "none" THEN Stop("invalid_key")
       ELSE \E a \in Answers :
              Finish(delete_variable(args.key), a,
                     CASE lookup_result(a) = "found" -> "deleted"
                       [] lookup_result(a) = "not_found" -> "not_found"
                       [] OTHER -> "error")
    /\ SingleFrame

\* The exit status of the process once the command has ended. click exits
\* with 0 when the command function returns and with 1 when an exception
\* leaves it. Every command body is inside 'try: ... except Exception' (lines
\* 406-408, 462-464, 668-670, 710-712, 814-816, 1036-1038) and none calls
\* sys.exit or ctx.exit, so the function returns: pc = "done".
exit_status == IF pc = "done" THEN 0 ELSE 1

(***************************************************************************)
(* GitLabClient.list_variables (lines 130-166)                             *)
(***************************************************************************)
PER_PAGE == 100

K_page == PyStr(<<"p", "a", "g", "e">>)
K_per_page == PyStr(<<"p", "e", "r", "_", "p", "a", "g", "e">>)

IsDigit(c) == c \in Digits

DigitValue(c) == (CHOOSE i \in 1..Len(DigitChars) : DigitChars[i] = c) - 1

\* The number a string of decimal digits denotes
RECURSIVE DigitsValue(_)
DigitsValue(s) ==
    IF s = <<>> THEN 0
    ELSE 10 * DigitsValue(SubSeq(s, 1, Len(s) - 1)) + DigitValue(s[Len(s)])

\* int(x) for a string x: surrounding whitespace and a sign are allowed;
\* ok = FALSE stands for ValueError
int(x) ==
    LET s == Strip(x.s)
        signed == s # <<>> /\ s[1] \in {"+", "-"}
        body == IF signed THEN Tail(s) ELSE s
    IN  IF body # <<>> /\ \A i \in 1..Len(body) : IsDigit(body[i])
        THEN [ok |-> TRUE,
              n |-> IF signed /\ s[1] = "-" THEN 0 - DigitsValue(body)
                    ELSE DigitsValue(body)]
        ELSE [ok |-> FALSE, n |-> 0]

\* The total page count with the default of line 156 set to 2
total_pages_default_two(header) ==
    LET raw == IF header = PyNone THEN PyStr(<<"x">>) ELSE header
    IN  IF int(raw).ok THEN int(raw).n ELSE 2

\* Lines 149-156: the total page count read from a response's headers
\* (header = PyNone: the response has no X-Total-Pages header)
total_pages(header) ==
    LET raw == IF header = PyNone THEN PyStr(<<"1">>) ELSE header
    IN  IF int(raw).ok THEN int(raw).n ELSE 1

\* The request of line 139 without the page counter
page_request_first_page(p) ==
    Request("list_variables", PyNone,
            PyDict(<<<<K_page, PyInt(1)>>, <<K_per_page, PyInt(PER_PAGE)>>>>), 0)

\* params={'page': page, 'per_page': per_page}
page_request(p) ==
    Request("list_variables", PyNone,
            PyDict(<<<<K_page, PyInt(p)>>, <<K_per_page, PyInt(PER_PAGE)>>>>), 0)

\* The answer to a page request: an exception, or a page of records and the
\* X-Total-Pages header
Failed == [raised |-> TRUE, entries |-> <<>>, header |-> PyNone]
PageOf(entries, header) == [raised |-> FALSE, entries |-> entries, header |-> header]

\* The answers the remote can give: any page with any header, or (for a project
\* whose variables fit one page) that page
Responses(r) ==
    {Failed} \cup {PageOf(e, h) : e \in r.pages, h \in r.headers}

ListFrame ==
    UNCHANGED <<args, doc, idx, var_key, pending, success_count, failed_count,
                remote, listed, written, outcome>>

\* The loop with a failed request taken as the end of the pages
ListPage_returns_partial ==
    /\ pc \in {"start", "fetch"}
    /\ args.cmd \in {"list", "download"}
    /\ LET p == IF pc = "start" THEN 1 ELSE page
       IN  /\ calls' = Append(calls, page_request(p))
           /\ \E r \in Responses(remote) :
                /\ replies' = Append(replies, r)
                /\ IF r.raised
                   THEN /\ pc' = "fetched"
                        /\ variables' = all_variables
                        /\ page' = p
                        /\ UNCHANGED <<all_variables, headers, console>>
                   ELSE /\ all_variables' = all_variables \o r.entries
                        /\ headers' = Append(headers, r.header)
                        /\ UNCHANGED console
                        /\ IF p >= total_pages(r.header)
                           THEN /\ pc' = "fetched"
                                /\ page' = p
                                /\ variables' = all_variables \o r.entries
                           ELSE /\ pc' = "fetch"
                                /\ page' = p + 1
                                /\ UNCHANGED variables
    /\ ListFrame

\* The loop leaving only when the page number has passed the total (> for >=
\* at line 159)
ListPage_one_page_more ==
    /\ pc \in {"start", "fetch"}
    /\ args.cmd \in {"list", "download"}
    /\ LET p == IF pc = "start" THEN 1 ELSE page
       IN  /\ calls' = Append(calls, page_request(p))
           /\ \E r \in Responses(remote) :
                /\ replies' = Append(replies, r)
                /\ IF r.raised
                   THEN /\ pc' = "done"
                        /\ console' = Append(console, Line("error", 0, PyNone))
                        /\ page' = p
                        /\ UNCHANGED <<all_variables, headers, variables>>
                   ELSE /\ all_variables' = all_variables \o r.entries
                        /\ headers' = Append(headers, r.header)
                        /\ UNCHANGED console
                        /\ IF p > total_pages(r.header)
                           THEN /\ pc' = "fetched"
                                /\ page' = p
                                /\ variables' = all_variables \o r.entries
                           ELSE /\ pc' = "fetch"
                                /\ page' = p + 1
                                /\ UNCHANGED variables
    /\ ListFrame

\* The loop with the total page count taken from the first response only
ListPage_total_of_first_response ==
    /\ pc \in {"start", "fetch"}
    /\ args.cmd \in {"list", "download"}
    /\ LET p == IF pc = "start" THEN 1 ELSE page
       IN  /\ calls' = Append(calls, page_request(p))
           /\ \E r \in Responses(remote) :
                /\ replies' = Append(replies, r)
                /\ IF r.raised
                   THEN /\ pc' = "done"
                        /\ console' = Append(console, Line("error", 0, PyNone))
                        /\ page' = p
                        /\ UNCHANGED <<all_variables, headers, variables>>
                   ELSE /\ all_variables' = all_variables \o r.entries
                        /\ headers' = Append(headers, r.header)
                        /\ UNCHANGED console
                        /\ IF p >= total_pages(IF headers = <<>> THEN r.header
                                               ELSE headers[1])
                           THEN /\ pc' = "fetched"
                                /\ page' = p
                                /\ variables' = all_variables \o r.entries
                           ELSE /\ pc' = "fetch"
                                /\ page' = p + 1
                                /\ UNCHANGED variables
    /\ ListFrame

\* One iteration of the loop of GitLabClient.list_variables, called at lines
\* 747 and 858: the request for the current page, its answer, and the return
\* to the command after the last page. A raised error is caught by the command
\* (lines 814-816 / 1036-1038).
ListPage ==
    /\ pc \in {"start", "fetch"}
    /\ args.cmd \in {"list", "download"}
    /\ LET p == IF pc = "start" THEN 1 ELSE page
       IN  /\ calls' = Append(calls, page_request(p))
           /\ \E r \in Responses(remote) :
                /\ replies' = Append(replies, r)
                /\ IF r.raised
                   THEN /\ pc' = "done"
                        /\ console' = Append(console, Line("error", 0, PyNone))
                        /\ page' = p
                        /\ UNCHANGED <<all_variables, headers, variables>>
                   ELSE /\ all_variables' = all_variables \o r.entries
                        /\ headers' = Append(headers, r.header)
                        /\ UNCHANGED console
                        /\ IF p >= total_pages(r.header)
                           THEN /\ pc' = "fetched"
                                /\ page' = p
                                /\ variables' = all_variables \o r.entries
                           ELSE /\ pc' = "fetch"
                                /\ page' = p + 1
                                /\ UNCHANGED variables
    /\ ListFrame

(***************************************************************************)
(* list and download: the filter (lines 754-769 / 865-880)                 *)
(***************************************************************************)
\* str.lower() of one character
Lower(c) ==
    IF c \in Range(UpperChars)
    THEN LowerChars[CHOOSE i \in 1..Len(UpperChars) : UpperChars[i] = c]
    ELSE c

\* re.compile(filter) raises re.error: a repeat with nothing to repeat, a
\* repeat of a repeat, an unterminated character set. (The patterns of this
\* model are written with literals, '.', '*', '^', '$' and a stray '['.)
compile_error(p) ==
    \/ p # <<>> /\ p[1] = "*"
    \/ \E i \in 1..(Len(p) - 1) : p[i] = "*" /\ p[i + 1] = "*"
    \/ \E i \in 1..Len(p) : p[i] = "[" /\ \A j \in (i + 1)..Len(p) : p[j] # "]"

\* The compiled pattern: its atoms, each a character (or '.', '^', '$') that
\* is starred or not
RECURSIVE Atoms(_)
Atoms(p) ==
    IF p = <<>> THEN <<>>
    ELSE IF Len(p) >= 2 /\ p[2] = "*"
         THEN <<[ch |-> p[1], star |-> TRUE]>> \o Atoms(SubSeq(p, 3, Len(p)))
         ELSE <<[ch |-> p[1], star |-> FALSE]>> \o Atoms(Tail(p))

\* One pattern character against one subject character, without re.IGNORECASE
CharMatches_case_sensitive(a, c) == IF a = "." THEN c # "\n" ELSE a = c

\* One pattern character against one subject character, under re.IGNORECASE
CharMatches(a, c) == IF a = "." THEN c # "\n" ELSE Lower(a) = Lower(c)

\* The atoms from the k-th on match s starting after its first i characters
RECURSIVE MatchFrom(_, _, _, _)
MatchFrom(atoms, k, s, i) ==
    IF k > Len(atoms) THEN TRUE
    ELSE LET a == atoms[k]
         IN  IF a.ch = "^" /\ ~a.star
             THEN i = 0 /\ MatchFrom(atoms, k + 1, s, i)
             ELSE IF a.ch = "$" /\ ~a.star
             THEN /\ \/ i = Len(s)
                     \/ i = Len(s) - 1 /\ s[Len(s)] = "\n"
                  /\ MatchFrom(atoms, k + 1, s, i)
             ELSE IF a.star
             THEN \/ MatchFrom(atoms, k + 1, s, i)
                  \/ /\ i < Len(s)
                     /\ CharMatches(a.ch, s[i + 1])
                     /\ MatchFrom(atoms, k, s, i + 1)
             ELSE /\ i < Len(s)
                  /\ CharMatches(a.ch, s[i + 1])
                  /\ MatchFrom(atoms, k + 1, s, i + 1)

\* pattern.search(s)
Search(p, s) == \E i \in 0..Len(s) : MatchFrom(Atoms(p), 1, s, i)

\* [var for var in variables if pattern.search(var.get('key', ''))]
RECURSIVE Filtered(_, _)
Filtered(records, p) ==
    IF records = <<>> THEN <<>>
    ELSE LET rest == Filtered(Tail(records), p)
         IN  IF Search(p, DictGet(records[1], K_key, EmptyStr).s)
             THEN <<records[1]>> \o rest
             ELSE rest

(***************************************************************************)
(* list and download: the sort (lines 773 / 883)                           *)
(***************************************************************************)
\* a < b for two strings
RECURSIVE StrLess(_, _)
StrLess(a, b) ==
    IF b = <<>> THEN FALSE
    ELSE IF a = <<>> THEN TRUE
    ELSE IF a[1] = b[1] THEN StrLess(Tail(a), Tail(b))
    ELSE Ord(a[1]) < Ord(b[1])

Number(v) == IF v.t = "bool" THEN (IF v.b THEN 1 ELSE 0) ELSE v.n

\* a < b is defined: both strings, or both numbers (bool is a number)
Comparable(a, b) ==
    \/ a.t = "str" /\ b.t = "str"
    \/ a.t \in {"bool", "int"} /\ b.t \in {"bool", "int"}

\* a < b, for comparable values
Less(a, b) == IF a.t = "str" THEN StrLess(a.s, b.s) ELSE Number(a) < Number(b)

\* lambda x: x.get(sort, '')
sort_key(x, field) == DictGet(x, field, EmptyStr)

\* The sort raises TypeError: two of the keys cannot be compared
sort_error(records, field) ==
    \E i, j \in 1..Len(records) :
        i < j /\ ~Comparable(sort_key(records[i], field), sort_key(records[j], field))

\* The insertion of a sort that, with reverse=True, turns the ascending order
\* around: records with equal keys change places
RECURSIVE Insert_reverse_swaps_ties(_, _, _, _)
Insert_reverse_swaps_ties(q, x, field, reverse) ==
    IF q = <<>> THEN <<x>>
    ELSE LET last == q[Len(q)]
             before == IF reverse
                       THEN ~Less(sort_key(x, field), sort_key(last, field))
                       ELSE Less(sort_key(x, field), sort_key(last, field))
         IN  IF before
             THEN Append(Insert_reverse_swaps_ties(SubSeq(q, 1, Len(q) - 1), x,
                                                   field, reverse), last)
             ELSE Append(q, x)

\* x put into the sorted sequence q behind every element that does not have
\* to follow it: the sort is stable, also with reverse=True
RECURSIVE Insert(_, _, _, _)
Insert(q, x, field, reverse) ==
    IF q = <<>> THEN <<x>>
    ELSE LET last == q[Len(q)]
             before == IF reverse
                       THEN Less(sort_key(last, field), sort_key(x, field))
                       ELSE Less(sort_key(x, field), sort_key(last, field))
         IN  IF before
             THEN Append(Insert(SubSeq(q, 1, Len(q) - 1), x, field, reverse), last)
             ELSE Append(q, x)

\* variables.sort(key=lambda x: x.get(sort, ''), reverse=reverse)
RECURSIVE Sorted(_, _, _)
Sorted(records, field, reverse) ==
    IF records = <<>> THEN <<>>
    ELSE Insert(Sorted(SubSeq(records, 1, Len(records) - 1), field, reverse),
                records[Len(records)], field, reverse)

\* Lines 749-773 / 860-883: what the command does with the fetched records
\* before it shows or writes them: "empty" (no variables), "bad_pattern",
\* "no_match", "exception" (the sort raised), or "ok" with the records
prepared(records, a) ==
    LET filtering == Truthy(a.filter)
        kept == IF filtering /\ ~compile_error(a.filter.s)
                THEN Filtered(records, a.filter.s) ELSE records
        stop(why) == [status |-> why, records |-> <<>>]
    IN  IF records = <<>> THEN stop("empty")
        ELSE IF filtering /\ compile_error(a.filter.s) THEN stop("bad_pattern")
        ELSE IF kept = <<>> THEN stop("no_match")
        ELSE IF sort_error(kept, a.sort) THEN stop("exception")
        ELSE [status |-> "ok", records |-> Sorted(kept, a.sort, a.reverse)]

(***************************************************************************)
(* Text                                                                    *)
(***************************************************************************)
\* The decimal digits of a natural number
RECURSIVE Decimal(_)
Decimal(n) ==
    IF n < 10 THEN <<DigitChars[n + 1]>>
    ELSE Decimal(n \div 10) \o <<DigitChars[(n % 10) + 1]>>

\* str(v), as an f-string formats v
str(v) ==
    CASE v.t = "str" -> v.s
      [] v.t = "none" -> <<"N", "o", "n", "e">>
      [] v.t = "bool" -> IF v.b THEN <<"T", "r", "u", "e">>
                         ELSE <<"F", "a", "l", "s", "e">>
      [] v.t = "int" -> IF v.n < 0 THEN <<"-">> \o Decimal(0 - v.n)
                        ELSE Decimal(v.n)

\* s.replace(a + b, c), for characters a, b and a string c
RECURSIVE Replace2(_, _, _, _)
Replace2(s, a, b, c) ==
    IF s = <<>> THEN <<>>
    ELSE IF Len(s) >= 2 /\ s[1] = a /\ s[2] = b
         THEN c \o Replace2(SubSeq(s, 3, Len(s)), a, b, c)
         ELSE <<s[1]>> \o Replace2(Tail(s), a, b, c)

\* s.replace(a, c), for a character a and a string c
RECURSIVE Replace1(_, _, _)
Replace1(s, a, c) ==
    IF s = <<>> THEN <<>>
    ELSE (IF s[1] = a THEN c ELSE <<s[1]>>) \o Replace1(Tail(s), a, c)

\* a + b in s, for characters a and b
Contains2(s, a, b) == \E i \in 1..(Len(s) - 1) : s[i] = a /\ s[i + 1] = b

(***************************************************************************)
(* download: the output file and its format (lines 885-903)                *)
(***************************************************************************)
SECRETS_YML == <<"s", "e", "c", "r", "e", "t", "s", ".", "y", "m", "l">>
SECRETS_JSON == <<"s", "e", "c", "r", "e", "t", "s", ".", "j", "s", "o", "n">>
DOT_ENV == <<".", "e", "n", "v">>
DOT_JSON == <<".", "j", "s", "o", "n">>

\* Path(p).name: the last component of the path
RECURSIVE Name(_)
Name(p) ==
    IF \E i \in 1..Len(p) : p[i] = "/"
    THEN Name(SubSeq(p, (CHOOSE i \in 1..Len(p) : p[i] = "/") + 1, Len(p)))
    ELSE p

\* Path(p).suffix: the name from its last dot on, unless that dot is the
\* first or the last character of the name
path_suffix(p) ==
    LET name == Name(p)
        dots == {i \in 1..Len(name) : name[i] = "."}
        last == CHOOSE i \in dots : \A j \in dots : j <= i
    IN  IF dots = {} THEN <<>>
        ELSE IF 1 < last /\ last < Len(name) THEN SubSeq(name, last, Len(name))
        ELSE <<>>

\* str.lower()
lower(s) == [i \in 1..Len(s) |-> Lower(s[i])]

\* Lines 886-903: the path written and the format used
output_file(a) ==
    LET output == IF Truthy(a.output) THEN a.output.s
                  ELSE IF a.format = "yaml" THEN SECRETS_YML
                  ELSE IF a.format = "json" THEN SECRETS_JSON
                  ELSE DOT_ENV
        file_ext == lower(path_suffix(output))
    IN  [path |-> output,
         format |-> IF file_ext = DOT_JSON THEN "json"
                    ELSE IF file_ext = DOT_ENV THEN "env"
                    ELSE a.format]

(***************************************************************************)
(* download: the content written (lines 906-1026)                          *)
(***************************************************************************)
K_total == PyStr(<<"t", "o", "t", "a", "l">>)
K_sorted_by == PyStr(<<"s", "o", "r", "t", "e", "d", "_", "b", "y">>)

\* The three comment lines at the top of a simple YAML file and an env file
header_lines(records, sort) ==
    <<"#", " ", "G", "i", "t", "L", "a", "b", " ", "C", "I", "/",
      "C", "D", " ", "V", "a", "r", "i", "a", "b", "l", "e", "s",
      "\n">>
    \o <<"#", " ", "T", "o", "t", "a", "l", ":", " ">>
    \o Decimal(Len(records)) \o <<"\n">>
    \o <<"#", " ", "S", "o", "r", "t", "e", "d", " ", "b", "y", ":",
      " ">>
    \o sort.s \o <<"\n", "\n">>

\* Lines 914-920: simple_data; a key that comes twice keeps its first place
\* and its last value
RECURSIVE simple_data(_, _)
simple_data(records, include_values) ==
    IF records = <<>> THEN EmptyDict
    ELSE LET var == records[Len(records)]
             before == simple_data(SubSeq(records, 1, Len(records) - 1),
                                   include_values)
         IN  DictSet(before, DictGet(var, K_key, EmptyStr),
                     IF include_values THEN DictGet(var, K_value, EmptyStr)
                     ELSE EmptyStr)

\* The comprehension of lines 942 / 968 without its condition
with_value(var) == var

\* {k: v for k, v in var.items() if k != 'value'}
without_value(var) ==
    PyDict(SelectSeq(var.items, LAMBDA kv : kv[1] # K_value))

\* Lines 931-947 / 957-973: data
export_data(records, sort, include_values) ==
    PyDict(<<<<K_variables,
               PyList(IF include_values THEN records
                      ELSE [i \in 1..Len(records) |-> without_value(records[i])])>>,
             <<K_total, PyInt(Len(records))>>,
             <<K_sorted_by, sort>>>>)

(***************************************************************************)
(* download: JSON (lines 976-1003)                                         *)
(***************************************************************************)
\* str(k) as json.dumps writes a dictionary key that is no string
json_key(k) ==
    CASE k.t = "str" -> k
      [] k.t = "none" -> PyStr(<<"n", "u", "l", "l">>)
      [] k.t = "bool" -> PyStr(IF k.b THEN <<"t", "r", "u", "e">>
                               ELSE <<"f", "a", "l", "s", "e">>)
      [] k.t = "int" -> PyStr(str(k))

\* json.loads(json.dumps(v)): the copy line 978 makes
RECURSIVE json_copy(_)
json_copy(v) ==
    CASE v.t = "dict" ->
            PyDict([i \in 1..Len(v.items) |->
                       <<json_key(v.items[i][1]), json_copy(v.items[i][2])>>])
      [] v.t = "list" -> PyList([i \in 1..Len(v.l) |-> json_copy(v.l[i])])
      [] OTHER -> v

JsonSpace(c) == c \in {" ", "\t", "\n"}

\* The first position from i on that holds no JSON whitespace
RECURSIVE SkipSpace(_, _)
SkipSpace(s, i) ==
    IF i <= Len(s) /\ JsonSpace(s[i]) THEN SkipSpace(s, i + 1) ELSE i

\* The first position from i on that holds no digit
RECURSIVE SkipDigits(_, _)
SkipDigits(s, i) ==
    IF i <= Len(s) /\ IsDigit(s[i]) THEN SkipDigits(s, i + 1) ELSE i

NotJson == [ok |-> FALSE, items |-> <<>>, next |-> 0]

\* The elements of an array from position i on, where an element is expected
RECURSIVE Elements(_, _, _)
Elements(s, i, items) ==
    LET e == SkipDigits(s, i)
        number == SubSeq(s, i, e - 1)
        j == SkipSpace(s, e)
    IN  IF e = i \/ (Len(number) > 1 /\ number[1] = "0") \/ j > Len(s)
        THEN NotJson
        ELSE IF s[j] = ","
        THEN Elements(s, SkipSpace(s, j + 1), Append(items, DigitsValue(number)))
        ELSE IF s[j] = "]"
        THEN [ok |-> TRUE, items |-> Append(items, DigitsValue(number)),
              next |-> j + 1]
        ELSE NotJson

\* json.loads(s) for the documents of this model, which are arrays of natural
\* numbers or no JSON at all; ok = FALSE stands for JSONDecodeError
json_loads(s) ==
    LET i == SkipSpace(s, 1)
        j == SkipSpace(s, i + 1)
        parsed == IF i > Len(s) \/ s[i] # "[" \/ j > Len(s) THEN NotJson
                  ELSE IF s[j] = "]"
                  THEN [ok |-> TRUE, items |-> <<>>, next |-> j + 1]
                  ELSE Elements(s, j, <<>>)
    IN  IF parsed.ok /\ SkipSpace(s, parsed.next) > Len(s) THEN parsed ELSE NotJson

\* json.dumps(items, indent=2, ensure_ascii=False) for an array of numbers
RECURSIVE json_lines(_)
json_lines(items) ==
    IF items = <<>> THEN <<>>
    ELSE <<" ", " ">> \o Decimal(items[1])
         \o (IF Len(items) > 1 THEN <<",">> ELSE <<>>) \o <<"\n">>
         \o json_lines(Tail(items))

json_dumps(items) ==
    IF items = <<>> THEN <<"[", "]">>
    ELSE <<"[", "\n">> \o json_lines(items) \o <<"]">>

\* Lines 982-1000: a value that holds the two characters backslash and n and
\* starts like a JSON document is parsed and written again
formatted_value(value) ==
    IF value.t = "str" /\ value.s # <<>> /\ Contains2(value.s, "\\", "n")
    THEN LET stripped == Strip(value.s)
             parsed == json_loads(Replace2(value.s, "\\", "n", <<"\n">>))
         IN  IF stripped # <<>> /\ stripped[1] \in {"{", "["} /\ parsed.ok
             THEN PyStr(Replace1(json_dumps(parsed.items), "\n", <<"\\", "n">>))
             ELSE value
    ELSE value

\* Lines 978-1000: formatted_data
formatted_data(records, sort, include_values) ==
    LET copy == json_copy(export_data(records, sort, include_values))
        copied == DictGet(copy, K_variables, PyList(<<>>)).l
        formatted(var) == IF HasKey(var, K_value)
                          THEN DictSet(var, K_value,
                                       formatted_value(DictGet(var, K_value, PyNone)))
                          ELSE var
    IN  IF include_values
        THEN DictSet(copy, K_variables,
                     PyList([i \in 1..Len(copied) |-> formatted(copied[i])]))
        ELSE copy

(***************************************************************************)
(* download: env (lines 1009-1024)                                         *)
(***************************************************************************)
\* Lines 1016-1024: one line for each record
RECURSIVE env_lines(_, _)
env_lines(records, include_values) ==
    IF records = <<>> THEN <<>>
    ELSE LET var == records[1]
         IN  str(DictGet(var, K_key, EmptyStr)) \o <<"=">>
             \o (IF include_values THEN str(DictGet(var, K_value, EmptyStr))
                 ELSE <<>>)
             \o <<"\n">> \o env_lines(Tail(records), include_values)

(***************************************************************************)
(* download: what is written (lines 906-1026)                              *)
(***************************************************************************)
\* What the file receives: the text written with f.write, and the value
\* handed to yaml.dump or json.dump, which writes its document after that text
Content(text, dumper, dumped) == [text |-> text, dumper |-> dumper, dumped |-> dumped]

content(records, a, format) ==
    CASE format = "yaml" /\ a.yaml_format \in {"none", "simple"} ->
            Content(header_lines(records, a.sort), "yaml",
                    simple_data(records, a.include_values))
      [] format = "yaml" /\ a.yaml_format = "structured" ->
            Content(<<>>, "yaml", export_data(records, a.sort, a.include_values))
      [] format = "json" ->
            Content(<<>>, "json", formatted_data(records, a.sort, a.include_values))
      [] format = "env" ->
            Content(header_lines(records, a.sort)
                        \o env_lines(records, a.include_values),
                    "none", PyNone)

\* A console line that shows something
Shown(msg, what) == [msg |-> msg, entry |-> 0, key |-> PyNone, what |-> what]

\* Lines 750-769 / 861-880: the console lines of a command that stops before
\* it shows or writes anything, and the line about the filter if it goes on
early_lines(status, a) ==
    CASE status = "empty" -> <<Line("no_variables", 0, PyNone)>>
      [] status = "bad_pattern" -> <<Shown("invalid_pattern", a.filter)>>
      [] status = "no_match" -> <<Shown("no_match", a.filter)>>
      [] status = "exception" ->
            (IF Truthy(a.filter) THEN <<Shown("filtered_by", a.filter)>> ELSE <<>>)
            \o <<Line("error", 0, PyNone)>>
      [] status = "ok" ->
            IF Truthy(a.filter) THEN <<Shown("filtered_by", a.filter)>> ELSE <<>>

\* Lines 790-802: row_data
row_data(var, show_values) ==
    <<DictGet(var, K_key, EmptyStr)>>
    \o (IF show_values THEN <<DictGet(var, K_value, EmptyStr)>> ELSE <<>>)
    \o <<PyStr(str(DictGet(var, K_protected, PyFalse))),
         PyStr(str(DictGet(var, K_masked, PyFalse))),
         PyStr(str(DictGet(var, K_raw, PyFalse))),
         DictGet(var, K_environment_scope, Star)>>

FetchedFrame ==
    UNCHANGED <<args, doc, variables, idx, var_key, pending, success_count,
                failed_count, calls, replies, page, all_variables, headers, remote,
                outcome>>

\* list, from line 749 on: filter, sort, table
ListTable ==
    /\ pc = "fetched"
    /\ args.cmd = "list"
    /\ LET r == prepared(variables, args)
           rows == [i \in 1..Len(r.records) |->
                       row_data(r.records[i], args.show_values)]
       IN  /\ listed' = r.records
           /\ console' = console \o early_lines(r.status, args)
                \o (IF r.status = "ok"
                    THEN <<Shown("table", [sorted_by |-> args.sort, rows |-> rows]),
                           Shown("total", Len(r.records))>>
                         \o (IF args.show_values
                             THEN <<Line("values_warning", 0, PyNone)>> ELSE <<>>)
                    ELSE <<>>)
    /\ pc' = "done"
    /\ UNCHANGED written
    /\ FetchedFrame

\* download, from line 860 on: filter, sort, file
DownloadWrite ==
    /\ pc = "fetched"
    /\ args.cmd = "download"
    /\ LET r == prepared(variables, args)
           target == output_file(args)
       IN  /\ listed' = r.records
           /\ written' = IF r.status = "ok"
                         THEN [path |-> target.path, format |-> target.format,
                               content |-> content(r.records, args, target.format)]
                         ELSE written
           /\ console' = console \o early_lines(r.status, args)
                \o (IF r.status = "ok"
                    THEN <<Shown("downloaded", [n |-> Len(r.records),
                                                path |-> target.path]),
                           Shown("format", target.format),
                           Shown("sorted_by", args.sort)>>
                         \o (IF args.include_values THEN <<>>
                             ELSE <<Line("values_excluded", 0, PyNone)>>)
                    ELSE <<>>)
    /\ pc' = "done"
    /\ FetchedFrame

(***************************************************************************)
(* Inputs of the bulk commands                                             *)
(***************************************************************************)
MaxEntries == 2

\* All sequences over S of length 0..n
RECURSIVE SeqsUpTo(_, _)
SeqsUpTo(S, n) ==
    IF n = 0 THEN {<<>>}
    ELSE LET shorter == SeqsUpTo(S, n - 1)
         IN  shorter \cup {Append(q, x) : q \in shorter, x \in S}

S_A1 == PyStr(<<"A", "1">>)
S_B_ == PyStr(<<"B", "_">>)
S_v == PyStr(<<"v">>)
S_prod == PyStr(<<"p", "r", "o", "d">>)

\* Entries of an input file: plain, with flags of its own, with a null value,
\* without a key, with a key holding a space, with a number as key, and an
\* entry that is no mapping at all
EntrySamples ==
    { KeyValue(S_A1, S_v),
      PyDict(<<<<K_key, S_B_>>, <<K_value, EmptyStr>>, <<K_protected, PyFalse>>,
               <<K_masked, PyTrue>>, <<K_environment_scope, S_prod>>>>),
      KeyValue(S_A1, PyNone),
      PyDict(<<<<K_value, S_v>>>>),
      KeyValue(PyStr(<<"A", " ", "B">>), S_v),
      KeyValue(PyInt(7), S_v),
      PyStr(<<"x">>) }

File(suffix, env_in_name, data) ==
    [suffix |-> suffix, env_in_name |-> env_in_name, data |-> data]

NoFile == File("", FALSE, PyNone)

\* A YAML file holding a top-level list of entries
ListFiles == {File(".yaml", FALSE, PyList(l)) : l \in SeqsUpTo(EntrySamples, MaxEntries)}

\* Files of the other shapes the loader distinguishes
OtherFiles ==
    { File(".json", FALSE,
           PyDict(<<<<K_variables, PyList(<<KeyValue(S_B_, S_v)>>)>>>>)),
      File(".json", FALSE, PyDict(<<<<PyStr(<<"D", "B">>), PyStr(<<"x">>)>>,
                                    <<S_A1, S_v>>>>)),
      File(".json", FALSE,
           PyDict(<<<<PyStr(<<"D", "B">>), PyStr(<<"x">>)>>,
                    <<PyStr(<<"L", "O", "G", "_", "L", "E", "V", "E", "L">>),
                      PyStr(<<"i", "n", "f", "o">>)>>>>)),
      File(".yml", FALSE,
           PyDict(<<<<K_variables, PyDict(<<<<S_A1, S_v>>>>)>>>>)),
      File(".yml", FALSE, PyDict(<<<<K_variables, PyStr(<<"a", "b">>)>>>>)),
      File(".yml", FALSE, PyDict(<<<<K_variables, PyInt(7)>>>>)),
      File(".yml", FALSE, PyDict(<<<<K_variables, PyNone>>>>)),
      File(".yaml", FALSE, PyStr(<<"x">>)),
      File(".json", FALSE, [t |-> "unparseable"]),
      File(".txt", FALSE, PyStr(<<"A", "1", "=", "v">>)),
      File(".env", FALSE,
           PyStr(<<"A", "1", "=", "v", "=", "x", "\n", "#", "B", "=", "1", "\n",
                   "\n", "K", "\n", " ", "B", "_", " ", "=", " ", "x", " ",
                   "y", " ", "\n">>)),
      File("", TRUE, PyStr(<<"K", "=">>)) }

Args(cmd, file, key, value, protected, masked, raw, environment_scope, upsert) ==
    [cmd |-> cmd, file |-> file, key |-> key, value |-> value,
     protected |-> protected, masked |-> masked, raw |-> raw,
     environment_scope |-> environment_scope, upsert |-> upsert]

\* create --file F [--protected] [--upsert] and update --file F [--protected false]
BulkArgs ==
    {Args("create", TRUE, PyNone, PyNone, p, PyFalse, PyFalse, Star, u) :
        p \in {PyFalse, PyTrue}, u \in BOOLEAN}
    \cup
    {Args("update", TRUE, PyNone, PyNone, p, PyNone, PyNone, PyNone, FALSE) :
        p \in {PyNone, PyFalse}}

\* The state every command starts in: its arguments a, the input file d, and
\* the remote r that list and download read
Begin(a, d, r) ==
    /\ args = a
    /\ doc = d
    /\ pc = "start"
    /\ variables = <<>>
    /\ idx = 0
    /\ var_key = Unbound
    /\ pending = PyNone
    /\ success_count = 0
    /\ failed_count = 0
    /\ calls = <<>>
    /\ replies = <<>>
    /\ console = <<>>
    /\ page = 0
    /\ all_variables = <<>>
    /\ headers = <<>>
    /\ remote = r
    /\ listed = <<>>
    /\ written = PyNone
    /\ outcome = PyNone

Start(a, d) == Begin(a, d, PyNone)

(***************************************************************************)
(* Inputs of the single-record commands                                    *)
(***************************************************************************)
MaxKeyLen == 2

KeyAlphabet == {"A", "1", "_", " ", "-", "\n"}

\* The KEY argument: every string over KeyAlphabet of up to MaxKeyLen letters
CliKeys == {PyStr(k) : k \in SeqsUpTo(KeyAlphabet, MaxKeyLen)}

\* The VALUE argument: omitted, empty or not
CliValues == {PyNone, EmptyStr, S_v}

SingleArgs ==
    {Args("create", FALSE, k, v, p, PyFalse, PyFalse, Star, u) :
        k \in CliKeys \cup {PyNone}, v \in CliValues, p \in {PyFalse, PyTrue},
        u \in BOOLEAN}
    \cup
    {Args("update", FALSE, k, v, p, PyNone, PyNone, PyNone, FALSE) :
        k \in CliKeys \cup {PyNone}, v \in CliValues, p \in {PyNone, PyFalse}}
    \cup
    {Args(c, FALSE, k, PyNone, PyNone, PyNone, PyNone, PyNone, FALSE) :
        c \in {"read", "delete"}, k \in CliKeys}

(***************************************************************************)
(* create, update, read and delete, single and bulk                        *)
(***************************************************************************)
InitSync ==
    \/ \E a \in BulkArgs, d \in ListFiles \cup OtherFiles : Start(a, d)
    \/ \E a \in SingleArgs : Start(a, NoFile)

NextBulk == LoadFile \/ BulkCreateEntry \/ BulkCreateUpsert \/ BulkUpdateEntry

NextSingle == Create \/ CreateUpsert \/ Update \/ Read \/ Delete

NextSync == NextBulk \/ NextSingle

SpecSync == InitSync /\ [][NextSync]_vars

(***************************************************************************)
(* list and download against a remote that answers every page request with *)
(* any page and any total page count, or fails                             *)
(***************************************************************************)
MaxPages == 3

\* A record as the remote returns it
Record(key, value, protected, masked, scope) ==
    PyDict(<<<<K_key, key>>, <<K_value, value>>, <<K_protected, protected>>,
             <<K_masked, masked>>, <<K_raw, PyFalse>>,
             <<K_environment_scope, scope>>>>)

R_A1 == Record(S_A1, S_v, PyFalse, PyFalse, Star)
R_B_ == Record(S_B_, EmptyStr, PyTrue, PyFalse, S_prod)

PageSamples == {<<>>, <<R_A1>>, <<R_B_, R_A1>>}

\* X-Total-Pages: missing, empty, no number, zero, negative, 1..MaxPages
PageHeaders ==
    {PyNone, EmptyStr, PyStr(<<"x">>), PyStr(<<"0">>), PyStr(<<"-", "1">>)}
    \cup {PyStr(Decimal(n)) : n \in 1..MaxPages}

ListArgs(cmd, output, format, sort, reverse, values, filter, yaml_format) ==
    [cmd |-> cmd, file |-> FALSE, output |-> output, format |-> format,
     sort |-> sort, reverse |-> reverse, show_values |-> values,
     include_values |-> values, filter |-> filter, yaml_format |-> yaml_format]

\* list [--show-values] and download [--include-values]
PageArgs ==
    {ListArgs(c, PyNone, "yaml", K_key, FALSE, v, PyNone, "none") :
        c \in {"list", "download"}, v \in BOOLEAN}

InitPage ==
    \E a \in PageArgs :
        Begin(a, NoFile, [pages |-> PageSamples, headers |-> PageHeaders])

NextPage == ListPage \/ ListTable \/ DownloadWrite

SpecPage == InitPage /\ [][NextPage]_vars

(***************************************************************************)
(* download of a project whose records fit one page, over the options of   *)
(* the command                                                             *)
(***************************************************************************)
MaxRecords == 2

\* '[\n1, 2]' with the two characters backslash and n, not a line break
S_json == PyStr(<<"[", "\\", "n", "1", ",", " ", "2", "]">>)

\* Records: plain; with a JSON document as value; a second scope of the same
\* key with a multi-line value; a record without value and flags
RecordSamples ==
    { R_A1,
      Record(S_B_, S_json, PyTrue, PyTrue, Star),
      Record(S_A1, PyStr(<<"x", "\n", "y">>), PyTrue, PyFalse, S_prod),
      PyDict(<<<<K_key, PyStr(<<"b">>)>>, <<K_environment_scope, Star>>>>) }

Snapshots == SeqsUpTo(RecordSamples, MaxRecords)

Outputs ==
    {PyNone, PyStr(<<"b", ".", "j", "s", "o", "n">>),
     PyStr(<<"o", "/", "b", ".", "E", "N", "V">>),
     PyStr(<<"b", ".", "y", "a", "m", "l">>), PyStr(DOT_ENV)}

Filters == {PyNone, PyStr(<<"^", "a">>), PyStr(<<"[">>)}

ExportArgs ==
    {ListArgs("download", o, f, s, r, v, p, y) :
        o \in Outputs, f \in {"yaml", "json", "env"}, s \in {K_key, K_protected},
        r \in BOOLEAN, v \in BOOLEAN, p \in Filters,
        y \in {"none", "simple", "structured"}}

InitExport ==
    \E a \in ExportArgs, snapshot \in Snapshots :
        Begin(a, NoFile, [pages |-> {snapshot}, headers |-> {PyNone}])

NextExport == ListPage \/ DownloadWrite

SpecExport == InitExport /\ [][NextExport]_vars

(***************************************************************************)
(* validate_variable_key on its own, over every short string               *)
(***************************************************************************)
ValidateAlphabet == {"A", "z", "1", "_", " ", "\t", "\n", "-", "!", "."}

\* The argument: every string over ValidateAlphabet of up to MaxKeyLen letters
ValidateKeys == {PyStr(k) : k \in SeqsUpTo(ValidateAlphabet, MaxKeyLen)}

InitValidate ==
    \E k \in ValidateKeys :
        Begin(Args("validate", FALSE, k, PyNone, PyNone, PyNone, PyNone, PyNone,
                   FALSE), NoFile, PyNone)

\* The call validate_variable_key(key)
Validate ==
    /\ pc = "start"
    /\ args.cmd = "validate"
    /\ outcome' = validate_variable_key(args.key)
    /\ pc' = "done"
    /\ UNCHANGED <<args, doc, variables, idx, var_key, pending, success_count,
                   failed_count, calls, replies, console, page, all_variables,
                   headers, remote, listed, written>>

SpecValidate == InitValidate /\ [][Validate]_vars

(***************************************************************************)
(* list and download of a project whose records fit one page, over the     *)
(* filters and the sort options                                            *)
(***************************************************************************)
MaxListed == 3

S_API_KEY == PyStr(<<"A", "P", "I", "_", "K", "E", "Y">>)
S_DATABASE_URL ==
    PyStr(<<"D", "A", "T", "A", "B", "A", "S", "E", "_", "U", "R", "L">>)
S_api_secret ==
    PyStr(<<"a", "p", "i", "_", "s", "e", "c", "r", "e", "t">>)

\* Records: three keys, one of them in lower case, two of them with the same
\* flags; a record that has only a value and a scope
ViewSamples ==
    { Record(S_API_KEY, S_v, PyFalse, PyFalse, Star),
      Record(S_DATABASE_URL, S_v, PyTrue, PyFalse, Star),
      Record(S_api_secret, EmptyStr, PyFalse, PyTrue, Star),
      PyDict(<<<<K_value, S_v>>, <<K_environment_scope, Star>>>>) }

\* --filter: none, API.*, ^d, URL$, one that matches no sample, and [
F_API == PyStr(<<"A", "P", "I", ".", "*">>)
F_d == PyStr(<<"^", "d">>)
F_URL == PyStr(<<"U", "R", "L", "$">>)
F_q == PyStr(<<"q">>)
F_bad == PyStr(<<"[">>)

ViewFilters == {PyNone, F_API, F_d, F_URL, F_q, F_bad}

ViewArgs ==
    {ListArgs(c, PyNone, "yaml", s, r, FALSE, p, "none") :
        c \in {"list", "download"}, s \in {K_key, K_protected, K_raw},
        r \in BOOLEAN, p \in ViewFilters}

InitView ==
    \E a \in ViewArgs, snapshot \in SeqsUpTo(ViewSamples, MaxListed) :
        Begin(a, NoFile, [pages |-> {snapshot}, headers |-> {PyNone}])

SpecView == InitView /\ [][NextPage]_vars

(***************************************************************************)
(* Bulk create and bulk update of one entry, over every combination of the *)
(* entry's optional fields and the command line options                    *)
(***************************************************************************)
FlagValues == {Unbound, PyNone, PyTrue, PyFalse}
ScopeValues == {Unbound, PyNone, Star, S_prod}

\* d with the pair <<k, v>> added, unless v says the entry has no such field
WithField(d, k, v) == IF v = Unbound THEN d ELSE DictSet(d, k, v)

MergeEntries ==
    {WithField(WithField(WithField(WithField(KeyValue(S_A1, S_v),
        K_protected, p), K_masked, m), K_raw, r), K_environment_scope, e) :
        p \in FlagValues, m \in FlagValues, r \in FlagValues, e \in ScopeValues}

MergeArgs ==
    {Args("create", TRUE, PyNone, PyNone, p, m, r, e, TRUE) :
        p \in {PyFalse, PyTrue}, m \in {PyFalse, PyTrue}, r \in {PyFalse, PyTrue},
        e \in {Star, S_prod}}
    \cup
    {Args("update", TRUE, PyNone, PyNone, p, m, r, e, FALSE) :
        p \in {PyNone, PyFalse, PyTrue}, m \in {PyNone, PyFalse, PyTrue},
        r \in {PyNone, PyFalse, PyTrue}, e \in {PyNone, Star, S_prod}}

InitMerge ==
    \E a \in MergeArgs, var \in MergeEntries :
        Start(a, File(".yaml", FALSE, PyList(<<var>>)))

SpecMerge == InitMerge /\ [][NextBulk]_vars

(***************************************************************************)
(* Properties                                                              *)
(***************************************************************************)
\* The positions in calls of the requests of kind op sent for entry e
\* (e = 0: the record of a single-record command)
CallsOf(op, e) == {j \in 1..Len(calls) : calls[j].op = op /\ calls[j].entry = e}

CallsFor(e) == {j \in 1..Len(calls) : calls[j].entry = e}

\* The positions in console of the lines printed for entry e
LinesOf(e) == {i \in 1..Len(console) : console[i].entry = e}

SuccessMsgs == {"created", "updated"}
FailureMsgs == {"failed", "missing_key", "invalid_key"}

SuccessLines == {i \in 1..Len(console) : console[i].msg \in SuccessMsgs}
FailureLines == {i \in 1..Len(console) : console[i].msg \in FailureMsgs}

\* The command is past the record e
Processed(e) == IF args.file THEN idx > e ELSE pc = "done"

\* The record e ended as a failure / as a success
EndedAsFailure(e) ==
    IF args.file
    THEN /\ \A i \in LinesOf(e) : console[i].msg \in FailureMsgs
         /\ Cardinality(LinesOf(e)) = 1
         /\ failed_count = Cardinality(FailureLines)
    ELSE console[Len(console)].msg = "error"

EndedAsSuccess(e, msg) ==
    IF args.file
    THEN /\ \A i \in LinesOf(e) : console[i].msg = msg
         /\ Cardinality(LinesOf(e)) = 1
         /\ success_count = Cardinality(SuccessLines)
    ELSE console[Len(console)].msg = msg

\* The remote's conflict signal: HTTP 409
IsConflictReply(a) == a.raised /\ a.has_response /\ a.status = CONFLICT

\* C1: in create (single and bulk), when the remote answers a record's create
\* request with a conflict: without upsert no update request is ever sent for
\* the record and it ends as a failure; with upsert exactly one update request
\* is sent for it, and when that request succeeds the record ends as a success,
\* reported as updated.
C1_ConflictThenUpsert ==
    \A j \in 1..Len(calls) :
        (calls[j].op = "create_variable" /\ IsConflictReply(replies[j])) =>
            LET e == calls[j].entry
                updates == CallsOf("update_variable", e)
            IN  IF ~args.upsert
                THEN /\ updates = {}
                     /\ Processed(e) => EndedAsFailure(e)
                ELSE /\ Cardinality(updates) <= 1
                     /\ \A u \in updates : u = j + 1
                     /\ Processed(e) =>
                          /\ Cardinality(updates) = 1
                          /\ \A u \in updates :
                                IF replies[u].raised
                                THEN EndedAsFailure(e)
                                ELSE EndedAsSuccess(e, "updated")

\* A bulk upsert whose create request met a conflict and whose update succeeded
C1_Witness ==
    /\ args.cmd = "create" /\ args.file /\ args.upsert
    /\ pc = "done"
    /\ \E j \in 1..Len(calls) :
          /\ calls[j].op = "create_variable"
          /\ IsConflictReply(replies[j])
          /\ j < Len(calls)
          /\ calls[j + 1].op = "update_variable"
          /\ ~replies[j + 1].raised
    /\ success_count >= 1

\* The loop of a bulk run was entered and the command has ended
BulkEnded == args.file /\ pc = "done" /\ variables # <<>>

\* C2: in a bulk create or bulk update a failure on one record never aborts
\* the batch: when the command ends, every entry of the file has been
\* processed.
C2_BatchNeverAborted == BulkEnded => idx = Len(variables) + 1

\* C3: a bulk create or bulk update over a non-empty entry list ends by
\* reporting the tally, with success count + failure count = number of entries.
C3_TallyCountsEveryEntry ==
    BulkEnded =>
        LET last == console[Len(console)]
        IN  /\ last.msg = "tally"
            /\ last.success + last.failed = Len(variables)
            /\ last.success = success_count
            /\ last.failed = failed_count

\* ^[A-Za-z0-9_]+$ with nothing after the last letter
IsValidKey(k) ==
    /\ k.t = "str"
    /\ k.s # <<>>
    /\ \A i \in 1..Len(k.s) : k.s[i] \in WordChars

\* The key of a record: of a mapping entry of a bulk run, or the KEY argument
KeyOfEntry(var) == DictGet(var, K_key, PyNone)

\* C4: every key sent to the remote in a get, create, update or delete request
\* is non-empty and matches ^[A-Za-z0-9_]+$; a record whose key is missing or
\* invalid causes no request, and in a bulk run counts as exactly one failure.
C4_OnlyValidKeysReachRemote ==
    /\ \A j \in 1..Len(calls) : IsValidKey(calls[j].key)
    /\ (~args.file /\ ~IsValidKey(args.key)) => calls = <<>>
    /\ args.file =>
          \A e \in 1..Len(variables) :
              (/\ variables[e].t = "dict"
               /\ ~IsValidKey(KeyOfEntry(variables[e]))
               /\ Processed(e)) =>
                  /\ CallsFor(e) = {}
                  /\ EndedAsFailure(e)

\* A bulk run past an entry with an invalid key, with a request sent for
\* another entry
C4_Witness ==
    /\ args.file
    /\ \E e \in 1..Len(variables) :
          /\ variables[e].t = "dict"
          /\ KeyOfEntry(variables[e]) = PyStr(<<"A", " ", "B">>)
          /\ Processed(e)
    /\ calls # <<>>
    /\ failed_count = 1

OptionalFields == {K_protected, K_masked, K_raw, K_environment_scope}

\* The command line's value for an optional field
CliValue(name) ==
    CASE name = K_protected -> args.protected
      [] name = K_masked -> args.masked
      [] name = K_raw -> args.raw
      [] name = K_environment_scope -> args.environment_scope

\* The entry has no value of its own for the field (absent or null)
Omits(var, name) == DictGet(var, name, PyNone) = PyNone

\* C8: in bulk create and bulk update, for each of protected, masked, raw and
\* environment_scope: when the entry carries a value for the field, the payload
\* carries the entry's value whatever the command line says; the command
\* line's value is in the payload only when the entry omits the field.
C8_EntryFieldsWin ==
    \A j \in 1..Len(calls) :
        LET var == variables[calls[j].entry]
            data == calls[j].data
        IN  \A name \in OptionalFields :
                /\ ~Omits(var, name) =>
                      /\ HasKey(data, name)
                      /\ DictGet(data, name, PyNone) = DictGet(var, name, PyNone)
                /\ (Omits(var, name) /\ HasKey(data, name)) =>
                      DictGet(data, name, PyNone) = CliValue(name)

\* A bulk create with --protected whose entry says protected: false, sent with
\* protected false
C8_Witness ==
    /\ args.cmd = "create"
    /\ args.protected = PyTrue
    /\ calls # <<>>
    /\ DictGet(variables[1], K_protected, PyNone) = PyFalse
    /\ DictGet(calls[1].data, K_protected, PyNone) = PyFalse
    /\ Omits(variables[1], K_masked)

\* The neutral value of an optional field
Neutral(name) == IF name = K_environment_scope THEN Star ELSE PyFalse

\* C9 as stated: in bulk create and bulk update, when an entry omits an
\* optional field and the command line's value for it is the neutral value
\* (false; "*" for environment_scope), the field is absent from the payload.
C9_NeutralNeverSent ==
    \A j \in 1..Len(calls) :
        \A name \in OptionalFields :
            (/\ Omits(variables[calls[j].entry], name)
             /\ CliValue(name) = Neutral(name)) =>
                ~HasKey(calls[j].data, name)

\* The option was not given to update (environment_scope: not given or empty)
NotGiven(name) ==
    IF name = K_environment_scope THEN ~Truthy(CliValue(name))
    ELSE CliValue(name) = PyNone

\* C9 amended: when an entry omits an optional field, bulk create leaves the
\* field out of the payload when the command line's value is the neutral
\* value; bulk update leaves it out only when the option was not given, and
\* sends an explicitly given neutral value (--protected false,
\* --environment-scope "*") as it is.
C9_NeutralSentOnlyByUpdate ==
    \A j \in 1..Len(calls) :
        \A name \in OptionalFields :
            Omits(variables[calls[j].entry], name) =>
                IF args.cmd = "create"
                THEN CliValue(name) = Neutral(name) => ~HasKey(calls[j].data, name)
                ELSE /\ NotGiven(name) => ~HasKey(calls[j].data, name)
                     /\ CliValue(name) = Neutral(name) =>
                           /\ HasKey(calls[j].data, name)
                           /\ DictGet(calls[j].data, name, PyNone) = Neutral(name)

\* A bulk update with --protected false and no --masked, of an entry without
\* either field: protected false is sent, masked is not
C9_Witness ==
    /\ args.cmd = "update"
    /\ args.protected = PyFalse
    /\ args.masked = PyNone
    /\ calls # <<>>
    /\ ~HasKey(variables[1], K_protected)
    /\ ~HasKey(variables[1], K_masked)
    /\ DictGet(calls[1].data, K_protected, PyNone) = PyFalse
    /\ ~HasKey(calls[1].data, K_masked)

(***************************************************************************)
(* Pagination                                                              *)
(***************************************************************************)
\* The entries of the pages received so far, in the order of the requests
RECURSIVE EntriesOf(_)
EntriesOf(answers) ==
    IF answers = <<>> THEN <<>>
    ELSE EntriesOf(SubSeq(answers, 1, Len(answers) - 1))
         \o answers[Len(answers)].entries

NoFailure == \A i \in 1..Len(replies) : ~replies[i].raised

\* Every response so far reports the total page count n
AllReport(n) ==
    \A i \in 1..Len(replies) :
        /\ replies[i].header # PyNone
        /\ int(replies[i].header) = [ok |-> TRUE, n |-> n]

\* The i-th request asks for page i with a page size of 100
AsksForPage(i) ==
    /\ calls[i].op = "list_variables"
    /\ calls[i].data.items = <<<<K_page, PyInt(i)>>, <<K_per_page, PyInt(100)>>>>

\* list_variables has returned or raised
Returned == pc \in {"fetched", "done"}

\* C5: when every response reports the same total page count N >= 1,
\* list_variables issues exactly N requests, for the pages 1, 2, ..., N in that
\* order and each with page size 100, and returns the concatenation of the
\* entries of all pages in request order.
C5_SamePageCountEveryResponse ==
    \A n \in 1..MaxPages :
        (replies # <<>> /\ NoFailure /\ AllReport(n)) =>
            /\ Len(calls) <= n
            /\ \A i \in 1..Len(calls) : AsksForPage(i)
            /\ Returned => /\ Len(calls) = n
                           /\ variables = EntriesOf(replies)

\* Three pages, each reported by every response, have been fetched
C5_Witness ==
    /\ pc = "fetched"
    /\ Len(calls) = MaxPages
    /\ NoFailure
    /\ AllReport(MaxPages)
    /\ replies[1].entries # <<>>
    /\ replies[1].entries # replies[2].entries
    /\ Len(variables) > Len(replies[1].entries)

\* The response carries no total page count, or one that is no number
NoPageCount(r) == r.header = PyNone \/ ~int(r.header).ok

\* C6: when the response to page 1 carries no total page count, or one that is
\* no number, list_variables issues exactly one request and returns exactly
\* the entries of that page.
C6_NoPageCountIsOnePage ==
    (replies # <<>> /\ ~replies[1].raised /\ NoPageCount(replies[1])) =>
        /\ Len(calls) = 1
        /\ Returned
        /\ variables = replies[1].entries

\* The first response had a total page count that is no number, and entries
C6_Witness ==
    /\ replies # <<>>
    /\ ~replies[1].raised
    /\ replies[1].header = PyStr(<<"x">>)
    /\ replies[1].entries # <<>>
    /\ Returned

HasTable == \E i \in 1..Len(console) : console[i].msg = "table"

\* C7: when a page request fails the whole listing fails: no entry of the
\* earlier pages is returned, list shows no table, download writes no file.
C7_FailedPageFailsListing ==
    (\E i \in 1..Len(replies) : replies[i].raised) =>
        /\ pc = "done"
        /\ variables = <<>>
        /\ listed = <<>>
        /\ ~HasTable
        /\ written = PyNone
        /\ console[Len(console)].msg = "error"

\* The second page request failed after a first page with entries
C7_Witness ==
    /\ Len(replies) = 2
    /\ replies[2].raised
    /\ all_variables # <<>>
    /\ args.cmd = "download"

(***************************************************************************)
(* Redaction                                                               *)
(***************************************************************************)
\* The records with every value replaced by the empty string
Blank(records) ==
    [i \in 1..Len(records) |->
        IF HasKey(records[i], K_value)
        THEN DictSet(records[i], K_value, EmptyStr) ELSE records[i]]

\* What download writes for the records under the options a, if anything
Export(records, a) ==
    LET r == prepared(records, a)
        target == output_file(a)
    IN  IF r.status = "ok"
        THEN [path |-> target.path, format |-> target.format,
              content |-> content(r.records, a, target.format)]
        ELSE PyNone

\* C10: with include-values off, what download writes does not depend on the
\* values of the records: it is what download writes for the same records
\* with every value blank, in every format.
C10_ValuesNeverWritten ==
    (pc = "done" /\ args.cmd = "download" /\ ~args.include_values) =>
        written = Export(Blank(variables), args)

\* A structured YAML file was written without values for records with values
C10_Witness ==
    /\ pc = "done"
    /\ ~args.include_values
    /\ written # PyNone
    /\ written.format = "yaml"
    /\ args.yaml_format = "structured"
    /\ Len(listed) = 2
    /\ \A i \in 1..Len(listed) : Truthy(DictGet(listed[i], K_value, EmptyStr))
    /\ Blank(variables) # variables

(***************************************************************************)
(* Round trips                                                             *)
(***************************************************************************)
\* The file download wrote, read by json.load (line 220): the document that
\* json.dump wrote parses to a copy of the value dumped
json_load(file) == json_copy(file.content.dumped)

\* A JSON file has been written with the values
JsonWritten ==
    /\ pc = "done"
    /\ written # PyNone
    /\ written.format = "json"
    /\ args.include_values

\* C11: the records of a JSON export with include-values on, read back through
\* the JSON import path (the 'variables' list of the document), equal the
\* exported records on every field, value included.
C11_JsonRoundTrip ==
    JsonWritten => structured_variables(json_load(written)) = PyList(listed)

\* The file download wrote, read line by line (lines 238-239)
env_read(file) == FileLines(file.content.text)

\* An env file has been written with the values
EnvWritten ==
    /\ pc = "done"
    /\ written # PyNone
    /\ written.format = "env"
    /\ args.include_values

\* Every exported record has a valid key and a string as value
PlainRecords ==
    \A i \in 1..Len(listed) :
        /\ HasKey(listed[i], K_key)
        /\ validate_variable_key(DictGet(listed[i], K_key, EmptyStr)) = Valid
        /\ HasKey(listed[i], K_value)
        /\ DictGet(listed[i], K_value, PyNone).t = "str"

\* C12: the records of an env export with include-values on, parsed back by
\* the env import parser, are exactly the original (key, value) pairs in the
\* same order, whatever the values hold (newlines, surrounding whitespace,
\* '=' or '#').
C12_EnvRoundTrip ==
    (EnvWritten /\ PlainRecords) =>
        env_entries(env_read(written)) =
            [i \in 1..Len(listed) |->
                KeyValue(DictGet(listed[i], K_key, PyNone),
                         DictGet(listed[i], K_value, PyNone))]

(***************************************************************************)
(* The format of the file download writes                                  *)
(***************************************************************************)
\* The format the extension of an output path stands for
FormatOfExtension(path) ==
    LET ext == lower(path_suffix(path))
    IN  IF ext = <<".", "j", "s", "o", "n">> THEN "json"
        ELSE IF ext = <<".", "e", "n", "v">> THEN "env"
        ELSE "yaml"

\* The default file of a format
DefaultFile(format) ==
    CASE format = "yaml" -> <<"s", "e", "c", "r", "e", "t", "s", ".", "y", "m", "l">>
      [] format = "json" -> <<"s", "e", "c", "r", "e", "t", "s", ".", "j", "s", "o", "n">>
      [] format = "env" -> <<".", "e", "n", "v">>

\* C13: with an output path its extension decides the format whatever --format
\* says (.json: JSON, .env: env, any other or none: YAML); without one the
\* default file of --format is written in that format.
C13_ExtensionDecidesFormat ==
    (pc = "done" /\ written # PyNone) =>
        IF Truthy(args.output)
        THEN /\ written.path = args.output.s
             /\ written.format = FormatOfExtension(args.output.s)
        ELSE /\ written.path = DefaultFile(args.format)
             /\ written.format = args.format

(***************************************************************************)
(* The key validator                                                       *)
(***************************************************************************)
Validated == pc = "done" /\ args.cmd = "validate"

\* The string matches ^[A-Za-z0-9_]+$
InKeyClass(s) == s # <<>> /\ \A i \in 1..Len(s) : s[i] \in WordChars

\* The characters of s that are whitespace or outside [A-Za-z0-9_]
Offending(s) == {s[i] : i \in 1..Len(s)} \ WordChars

\* The sequence q holds exactly the characters of S, each once, in order
ListsSorted(q, S) ==
    /\ {q[i] : i \in 1..Len(q)} = S
    /\ \A i, j \in 1..Len(q) : i < j => Ord(q[i]) < Ord(q[j])

\* The validator succeeds for exactly the strings of the key class
ExactlyKeyClass ==
    /\ outcome = Valid <=> InKeyClass(args.key.s)
    /\ outcome # Valid => outcome.exc = "ValueError"

\* C14 as stated: validate_variable_key succeeds for exactly the strings that
\* match ^[A-Za-z0-9_]+$ and fails for every other string; for every string
\* with whitespace or another character outside that set, the failure message
\* lists the distinct offending characters, sorted and deduplicated.
C14_MessageListsOffending ==
    Validated =>
        /\ ExactlyKeyClass
        /\ Offending(args.key.s) # {} =>
              /\ outcome.kind = "characters"
              /\ ListsSorted(outcome.chars, Offending(args.key.s))

\* C14: validate_variable_key succeeds for exactly the strings that match
\* ^[A-Za-z0-9_]+$ (a leading digit is accepted) and fails for every other
\* string, the empty string included. For a string without whitespace that
\* holds a character outside that set, the failure message lists the distinct
\* offending characters, sorted and deduplicated; for a string with whitespace
\* the message lists no characters: it says that the key is empty (whitespace
\* only) or that keys are one line without spaces.
C14_MessageListsUnlessSpace ==
    Validated =>
        /\ ExactlyKeyClass
        /\ IF HasSpace(args.key.s)
           THEN /\ outcome.kind = (IF AllSpace(args.key.s) THEN "empty" ELSE "spaces")
                /\ outcome.chars = <<>>
           ELSE Offending(args.key.s) # {} =>
                   /\ outcome.kind = "characters"
                   /\ ListsSorted(outcome.chars, Offending(args.key.s))

\* The key -! was rejected with the characters listed as !, -
C14_Witness ==
    /\ Validated
    /\ args.key.s = <<"-", "!">>
    /\ outcome.kind = "characters"
    /\ outcome.chars = <<"!", "-">>

(***************************************************************************)
(* The filter                                                              *)
(***************************************************************************)
\* The word is in s at position i, whatever the case of the letters
WordAt(s, word, i) ==
    /\ i >= 1
    /\ i + Len(word) - 1 <= Len(s)
    /\ \A j \in 1..Len(word) : lower(s)[i + j - 1] = word[j]

\* What the sample patterns ask of a key: API.* that it holds api, ^d that it
\* starts with d, URL$ that it ends with url, q that it holds q
Wanted(p, k) ==
    CASE p = F_API -> \E i \in 1..Len(k) : WordAt(k, <<"a", "p", "i">>, i)
      [] p = F_d -> WordAt(k, <<"d">>, 1)
      [] p = F_URL -> WordAt(k, <<"u", "r", "l">>, Len(k) - 2)
      [] p = F_q -> \E i \in 1..Len(k) : WordAt(k, <<"q">>, i)

\* The records whose key the pattern asks for, in their original order
Matching(records, p) ==
    SelectSeq(records, LAMBDA var : Wanted(p, DictGet(var, K_key, EmptyStr).s))

\* How often a record occurs in a sequence
Occurrences(q, x) == Cardinality({i \in 1..Len(q) : q[i] = x})

Shows(msg) == \E i \in 1..Len(console) : console[i].msg = msg

\* The command got its records, filtered and sorted them
Viewed == pc = "done" /\ replies # <<>> /\ ~replies[1].raised /\ variables # <<>>

\* C15: with a valid pattern the filter keeps exactly the records whose key
\* holds a case-insensitive match of the pattern, in their original relative
\* order; an invalid pattern is reported as an error, no table is shown and no
\* file is written.
C15_FilterKeepsMatching ==
    (Viewed /\ Truthy(args.filter)) =>
        IF args.filter = F_bad
        THEN /\ Shows("invalid_pattern")
             /\ ~Shows("table")
             /\ written = PyNone
             /\ listed = <<>>
        ELSE LET kept == Matching(variables, args.filter)
             IN  /\ \A x \in ViewSamples : Occurrences(listed, x) = Occurrences(kept, x)
                 \* the sort by raw moves no record: all have the same raw
                 /\ args.sort = K_raw => listed = kept

\* API_KEY, DATABASE_URL and api_secret filtered by API.* and left in place by
\* the sort: API_KEY and api_secret are shown, in that order
C15_Witness ==
    /\ Viewed
    /\ args.filter = F_API
    /\ args.sort = K_raw
    /\ [i \in 1..Len(variables) |-> DictGet(variables[i], K_key, EmptyStr)]
         = <<S_API_KEY, S_DATABASE_URL, S_api_secret>>
    /\ [i \in 1..Len(listed) |-> DictGet(listed[i], K_key, EmptyStr)]
         = <<S_API_KEY, S_api_secret>>

(***************************************************************************)
(* The sort                                                                *)
(***************************************************************************)
\* The value a record is sorted by
SortValue(x) == DictGet(x, args.sort, EmptyStr)

\* The command sorted its records without a filter, and showed or wrote them
SortedAll ==
    /\ Viewed
    /\ args.filter = PyNone
    /\ Shows("table") \/ written # PyNone

\* v comes before w in ascending order: false before true, and strings as
\* Python compares them
Before(v, w) ==
    IF v.t = "bool" /\ w.t = "bool" THEN ~v.b /\ w.b
    ELSE v.t = "str" /\ w.t = "str" /\ StrLess(v.s, w.s)

\* The records of q that are sorted by the value v, in their order in q
WithValue(q, v) == SelectSeq(q, LAMBDA x : SortValue(x) = v)

\* C16: the sort is stable: records with equal values of the sort field keep
\* their original relative order, without --reverse and with it, where the
\* result is in descending order of the sort field.
C16_SortIsStable ==
    SortedAll =>
        /\ Len(listed) = Len(variables)
        /\ \A i, j \in 1..Len(listed) :
              i < j => IF args.reverse
                       THEN ~Before(SortValue(listed[i]), SortValue(listed[j]))
                       ELSE ~Before(SortValue(listed[j]), SortValue(listed[i]))
        /\ \A x \in ViewSamples :
              WithValue(listed, SortValue(x)) = WithValue(variables, SortValue(x))

\* With --reverse and the sort by protected, api_secret and API_KEY (both not
\* protected) stay in that order behind DATABASE_URL (protected)
C16_Witness ==
    /\ SortedAll
    /\ args.reverse
    /\ args.sort = K_protected
    /\ [i \in 1..Len(variables) |-> DictGet(variables[i], K_key, EmptyStr)]
         = <<S_api_secret, S_API_KEY, S_DATABASE_URL>>
    /\ [i \in 1..Len(listed) |-> DictGet(listed[i], K_key, EmptyStr)]
         = <<S_DATABASE_URL, S_api_secret, S_API_KEY>>

\* The value a record is sorted by, the zero value of the field's type when
\* the record lacks the field
ValueOrZero(x) ==
    DictGet(x, args.sort, IF args.sort = K_key THEN EmptyStr ELSE PyFalse)

\* C17: a record that lacks the sort field is ordered as if the field had its
\* type's zero value (false for protected, masked and raw, the empty string
\* for key), and the sort succeeds for every snapshot, also when only some of
\* the records lack the field.
C17_MissingFieldSortsAsZero ==
    (Viewed /\ args.filter = PyNone) =>
        /\ Shows("table") \/ written # PyNone
        /\ ~Shows("error")
        /\ Len(listed) = Len(variables)
        /\ \A i, j \in 1..Len(listed) :
              i < j => IF args.reverse
                       THEN ~Before(ValueOrZero(listed[i]), ValueOrZero(listed[j]))
                       ELSE ~Before(ValueOrZero(listed[j]), ValueOrZero(listed[i]))

(***************************************************************************)
(* Exit status                                                             *)
(***************************************************************************)
\* A single-record command has ended after a remote call that failed
SingleFailed ==
    /\ pc = "done"
    /\ ~args.file
    /\ args.cmd \in {"create", "update", "read", "delete"}
    /\ replies # <<>>
    /\ replies[Len(replies)].raised
    /\ console[Len(console)].msg = "error"

\* A bulk command has ended with failed records
BulkFailed ==
    /\ pc = "done"
    /\ args.file
    /\ failed_count > 0

\* C18: a single-record command (read, update, delete, single create) whose
\* remote call fails ends with a failure exit status, while a bulk command
\* that recorded failed records ends with a success exit status.
C18_SingleFailureExitStatus ==
    /\ SingleFailed => exit_status # 0
    /\ BulkFailed => exit_status = 0

(***************************************************************************)
(* Not found                                                               *)
(***************************************************************************)
\* read or delete has sent its request and ended
LookedUp ==
    /\ pc = "done"
    /\ args.cmd \in {"read", "delete"}
    /\ Len(calls) = 1
    /\ calls[1].op = (IF args.cmd = "read" THEN "get_variable" ELSE "delete_variable")

\* The answer is an HTTP error with the given status
HttpError(a, status) == a.raised /\ a.has_response /\ a.status = status

\* C19: a get or a delete of a key the remote does not have (HTTP 404) gives a
\* not-found outcome and no exception: the command prints 'not found' and no
\* error; every other HTTP error of get or delete is raised to the caller,
\* which reports it as an error.
C19_NotFoundIsNoError ==
    LookedUp =>
        /\ HttpError(replies[1], 404) =>
              /\ console[Len(console)].msg = "not_found"
              /\ ~Shows("error")
        /\ (\E status \in {400, 409} : HttpError(replies[1], status)) =>
              console[Len(console)].msg = "error"

\* delete of a key the remote answers with HTTP 404
C19_Witness ==
    /\ LookedUp
    /\ args.cmd = "delete"
    /\ HttpError(replies[1], 404)
    /\ console[Len(console)].msg = "not_found"

(***************************************************************************)
(* The shapes of a YAML or JSON input file                                 *)
(***************************************************************************)
\* A bulk command has read its YAML or JSON file
Loaded ==
    /\ args.file
    /\ pc # "start"
    /\ doc.suffix \in {".yml", ".yaml", ".json"}
    /\ doc.data.t \in {"dict", "list"}

\* The i-th pair of a mapping as an entry: key and value, nothing else
PairEntry(pair) == PyDict(<<<<K_key, pair[1]>>, <<K_value, pair[2]>>>>)

TheVariablesOf(data) == data.items[CHOOSE i \in 1..Len(data.items) :
                                      data.items[i][1] = K_variables][2]

\* C20: for YAML and JSON input, a top-level mapping with a 'variables' key
\* gives that key's value as the entry list; any other top-level mapping gives
\* one entry for each pair, in document order, with key and value only; a
\* top-level sequence is the entry list as it is.
C20_InputShapes ==
    Loaded =>
        IF doc.data.t = "list" THEN variables = doc.data.l
        ELSE IF \E i \in 1..Len(doc.data.items) : doc.data.items[i][1] = K_variables
        THEN TheVariablesOf(doc.data).t = "list"
                => variables = TheVariablesOf(doc.data).l
        ELSE variables = [i \in 1..Len(doc.data.items) |-> PairEntry(doc.data.items[i])]

\* {"DB": "x", "LOG_LEVEL": "info"} created: DB, then LOG_LEVEL, both sent with
\* key and value only
C20_Witness ==
    /\ Loaded
    /\ pc = "done"
    /\ args.cmd = "create"
    /\ args.protected = PyFalse
    /\ doc.data.t = "dict"
    /\ Len(doc.data.items) = 2
    /\ doc.data.items[1][1].s = <<"D", "B">>
    /\ doc.data.items[2][1].s = <<"L", "O", "G", "_", "L", "E", "V", "E", "L">>
    /\ Len(calls) = 2
    /\ \A i \in 1..2 : /\ calls[i].op = "create_variable"
                       /\ calls[i].data = PairEntry(doc.data.items[i])

(***************************************************************************)
(* Files that give nothing to do                                           *)
(***************************************************************************)
Structured == doc.suffix \in {".yml", ".yaml", ".json"}

\* The extension of the file is not recognized
Unrecognized == ~Structured /\ doc.suffix # ".env" /\ ~doc.env_in_name

\* The parsed top-level value is neither a mapping nor a sequence
BadShape == Structured /\ doc.data.t \in {"str", "int", "bool", "none"}

\* The file holds no entries: an empty sequence, an empty mapping, or a
\* 'variables' key with nothing under it
NoEntries ==
    /\ Structured
    /\ \/ doc.data.t = "list" /\ doc.data.l = <<>>
       \/ doc.data.t = "dict" /\ doc.data.items = <<>>
       \/ /\ doc.data.t = "dict"
          /\ \E i \in 1..Len(doc.data.items) :
                /\ doc.data.items[i][1] = K_variables
                /\ doc.data.items[i][2] \in {PyNone, PyList(<<>>), EmptyDict}

\* C21: when the extension of the file is not recognized, or the parsed
\* top-level value is neither a mapping nor a sequence, or the file holds no
\* entries, the bulk command reports this and issues no remote call; reading
\* the file never contacts the remote.
C21_NothingToDoNoCall ==
    args.file =>
        /\ (pc = "start" \/ (pc = "loop" /\ idx = 1)) => calls = <<>>
        /\ (Unrecognized \/ BadShape \/ NoEntries) =>
              /\ calls = <<>>
              /\ pc \in {"start", "done"}
              /\ pc = "done" =>
                    /\ Len(console) = 1
                    /\ console[1].msg = (IF Unrecognized THEN "unsupported"
                                         ELSE IF BadShape THEN "invalid"
                                         ELSE "no_variables")

\* A .txt file was refused without a request
C21_Witness ==
    /\ args.file
    /\ pc = "done"
    /\ doc.suffix = ".txt"
    /\ console = <<Line("unsupported", 0, PyNone)>>
    /\ calls = <<>>

(***************************************************************************)
(* Empty values                                                            *)
(***************************************************************************)
\* The first request for record e is of the command's kind and carries the
\* empty string as value
SentEmpty(e) ==
    /\ CallsFor(e) # {}
    /\ LET first == calls[CHOOSE j \in CallsFor(e) : \A k \in CallsFor(e) : j <= k]
       IN  /\ first.op = (IF args.cmd = "create" THEN "create_variable"
                          ELSE "update_variable")
           /\ HasKey(first.data, K_value)
           /\ DictGet(first.data, K_value, PyNone) = EmptyStr

\* C22: a record with a valid key and an empty-string value is accepted by
\* create and update, in the single-record form and in the bulk form, and is
\* sent to the remote with the empty value.
C22_EmptyValueAccepted ==
    args.cmd \in {"create", "update"} =>
        IF args.file
        THEN \A e \in 1..Len(variables) :
                (/\ Processed(e)
                 /\ variables[e].t = "dict"
                 /\ IsValidKey(KeyOfEntry(variables[e]))
                 /\ DictGet(variables[e], K_value, PyNone) = EmptyStr)
                    => SentEmpty(e)
        ELSE (pc = "done" /\ IsValidKey(args.key) /\ args.value = EmptyStr)
                => SentEmpty(0)

(***************************************************************************)
(* Create first, update only after HTTP 409                                *)
(***************************************************************************)
\* The first request sent for record e is a create request
CreateFirst(e) ==
    CallsFor(e) # {} =>
        calls[CHOOSE j \in CallsFor(e) : \A k \in CallsFor(e) : j <= k].op
            = "create_variable"

\* The update request at position u follows a create request for the same
\* record that the remote answered with HTTP 409, and upsert is enabled
UpdateAfterConflict(u) ==
    /\ args.upsert
    /\ u > 1
    /\ calls[u - 1].op = "create_variable"
    /\ calls[u - 1].entry = calls[u].entry
    /\ IsConflictReply(replies[u - 1])

\* A create request that failed otherwise ends its record as a failure and no
\* update request is sent for the record
OtherFailureEnds(j) ==
    (calls[j].op = "create_variable" /\ replies[j].raised
        /\ ~IsConflictReply(replies[j])) =>
            /\ CallsOf("update_variable", calls[j].entry) = {}
            /\ Processed(calls[j].entry) => EndedAsFailure(calls[j].entry)

\* C23: in create (single and bulk) the first request for a record is a create
\* request; an update request is sent for a record only if upsert is enabled
\* and the create request for that record failed with HTTP 409; any other
\* failure of the create request ends the record as a failure with no update
\* request.
C23_UpdateOnlyAfterHttpConflict ==
    args.cmd = "create" =>
        /\ \A e \in 0..Len(variables) : CreateFirst(e)
        /\ \A u \in 1..Len(calls) :
              calls[u].op = "update_variable" => UpdateAfterConflict(u)
        /\ \A j \in 1..Len(calls) : Len(replies) >= j => OtherFailureEnds(j)

(***************************************************************************)
(* The update of an upsert carries what the create carried                 *)
(***************************************************************************)
SentFields == {K_value, K_protected, K_masked, K_raw, K_environment_scope}

\* Two requests carry the field f alike: both without it, or both with the
\* same value
SameField(c, u, f) ==
    /\ HasKey(c.data, f) <=> HasKey(u.data, f)
    /\ DictGet(c.data, f, Unbound) = DictGet(u.data, f, Unbound)

\* The positions of the update requests that an upsert sent after a conflict
Fallbacks ==
    {u \in 2..Len(calls) :
        /\ args.cmd = "create"
        /\ calls[u].op = "update_variable"
        /\ calls[u - 1].op = "create_variable"
        /\ calls[u - 1].entry = calls[u].entry}

\* C24: when an upsert falls back from create to update, the update request
\* carries the same value and the same optional attributes (protected, masked,
\* raw, environment_scope, each present or absent alike) as the create request
\* that met the conflict, also for an entry whose value is null.
C24_FallbackCarriesSameFields ==
    \A u \in Fallbacks :
        /\ calls[u].key = calls[u - 1].key
        /\ \A f \in SentFields : SameField(calls[u - 1], calls[u], f)

(***************************************************************************)
(* Document order                                                          *)
(***************************************************************************)
\* The console lines that report the outcome of an entry, in print order
RECURSIVE Outcomes(_)
Outcomes(lines) ==
    IF lines = <<>> THEN <<>>
    ELSE IF Head(lines).entry >= 1
         THEN <<Head(lines).entry>> \o Outcomes(Tail(lines))
         ELSE Outcomes(Tail(lines))

\* C25: in bulk create and bulk update the requests are sent one at a time in
\* document order: a request is answered before the next one is sent, no
\* request for an entry follows a request for a later entry, requests are sent
\* only for the entry the loop is at, and the k-th outcome line reports the
\* k-th entry of the file.
C25_DocumentOrder ==
    args.file =>
        /\ Len(replies) = Len(calls)
        /\ \A j, k \in 1..Len(calls) : j < k => calls[j].entry <= calls[k].entry
        /\ \A j \in 1..Len(calls) :
              /\ calls[j].entry >= 1
              /\ calls[j].entry <= idx
              /\ (pc = "loop" => calls[j].entry < idx)
        /\ LET o == Outcomes(console)
           IN  /\ \A k \in 1..Len(o) : o[k] = k
               /\ Len(o) <= Len(variables)

\* A bulk upsert of two entries: a create and an update request for the first
\* entry, then a request for the second, and two outcome lines
C25_Witness ==
    /\ args.file /\ pc = "done"
    /\ Len(variables) = 2
    /\ Len(calls) = 3
    /\ calls[1].entry = 1 /\ calls[2].entry = 1 /\ calls[3].entry = 2
    /\ Outcomes(console) = <<1, 2>>

(***************************************************************************)
(* The paging loop ends                                                    *)
(***************************************************************************)
\* The paging loop with every request answered in the end: the client call
\* blocks until the remote answers or the transport raises
SpecPageFair == InitPage /\ [][NextPage]_vars /\ WF_vars(ListPage)

\* The total page count a response reports: 1 when the header is missing or
\* is no number
ReportedTotal(h) == IF h = PyNone \/ ~int(h).ok THEN 1 ELSE int(h).n

Max(a, b) == IF a >= b THEN a ELSE b

\* The largest total reported by the responses so far (0: none yet)
RECURSIVE MaxReported(_)
MaxReported(rs) ==
    IF rs = <<>> THEN 0
    ELSE Max(MaxReported(Tail(rs)),
             IF Head(rs).raised THEN 0 ELSE ReportedTotal(Head(rs).header))

InLoop == pc \in {"start", "fetch"}

\* No more requests than the largest total reported (and than the bound of the
\* remote), and no request after the first page whose number has reached the
\* total its response reports
C26_AtMostN ==
    /\ Len(calls) <= Max(MaxReported(replies), 1)
    /\ Len(calls) <= Max(MaxPages, 1)
    /\ \A j \in 1..Len(replies) :
          (~replies[j].raised /\ j >= ReportedTotal(replies[j].header)) =>
              (j = Len(calls) /\ ~InLoop)
    /\ (InLoop /\ pc = "fetch") =>
          (~replies[Len(replies)].raised
             /\ Len(replies) < ReportedTotal(replies[Len(replies)].header))

Reached(p) == ~replies[p].raised /\ ReportedTotal(replies[p].header) <= p

\* list_variables has returned
ListReturned == ~InLoop /\ calls # <<>> /\ ~replies[Len(replies)].raised

\* C27: the total page count is read again from every response: the number of
\* requests list_variables sends before it returns is the smallest p >= 1 for
\* which the total reported by the response to page p (1 when missing or no
\* number) is at most p; a reported total of 0 or below gives one request.
C27_TotalReadFromEveryResponse ==
    /\ ListReturned =>
          /\ Reached(Len(calls))
          /\ \A p \in 1..(Len(calls) - 1) : ~Reached(p)
    /\ InLoop => \A p \in 1..Len(calls) : ~Reached(p)
    /\ (calls # <<>> /\ ~replies[1].raised
          /\ ReportedTotal(replies[1].header) <= 0) => Len(calls) = 1

\* The first response reports three pages, the second one page: two requests
C27_Witness ==
    /\ pc = "fetched"
    /\ Len(calls) = 2
    /\ ReportedTotal(replies[1].header) = 3
    /\ ReportedTotal(replies[2].header) = 1

(***************************************************************************)
(* Entries that are no mapping                                             *)
(***************************************************************************)
NonMappings == {e \in 1..Len(variables) : variables[e].t # "dict"}

\* C28: in bulk create and bulk update an entry that is not a mapping, also
\* when it is the first entry, is recorded as exactly one failed record with
\* no request, the later entries are still processed, and the tally is
\* reported.
C28_NonMappingIsOneFailure ==
    (BulkEnded /\ NonMappings # {}) =>
        /\ idx = Len(variables) + 1
        /\ console[Len(console)].msg = "tally"
        /\ \A e \in NonMappings :
              /\ Cardinality(LinesOf(e)) = 1
              /\ \A i \in LinesOf(e) : console[i].msg = "failed"
              /\ CallsFor(e) = {}
        /\ failed_count >= Cardinality(NonMappings)

(***************************************************************************)
(* How many requests a bulk run sends                                      *)
(***************************************************************************)
\* The entries of the file that are mappings with a valid key
ValidEntries ==
    {e \in 1..Len(variables) :
        variables[e].t = "dict" /\ IsValidKey(KeyOfEntry(variables[e]))}

\* C29: bulk create sends at most one create request and at most one update
\* request per entry; bulk update sends exactly one update request per entry
\* with a valid key and never a create request; neither sends a delete
\* request.
C29_RequestsPerEntry ==
    (args.file /\ args.cmd \in {"create", "update"}) =>
        /\ \A j \in 1..Len(calls) :
              calls[j].op \in {"create_variable", "update_variable"}
        /\ \A e \in 1..Len(variables) :
              /\ Cardinality(CallsOf("create_variable", e)) <= 1
              /\ Cardinality(CallsOf("update_variable", e)) <= 1
        /\ args.cmd = "update" =>
              /\ \A j \in 1..Len(calls) : calls[j].op = "update_variable"
              /\ BulkEnded =>
                    \A e \in ValidEntries :
                        Cardinality(CallsOf("update_variable", e)) = 1

(***************************************************************************)
(* Simple YAML: one entry per record                                       *)
(***************************************************************************)
\* A simple YAML file has been written
SimpleWritten ==
    /\ pc = "done"
    /\ written # PyNone
    /\ written.format = "yaml"
    /\ args.yaml_format \in {"none", "simple"}

\* No two exported records have the same key and the same environment scope
DistinctRecords ==
    \A i, j \in 1..Len(listed) :
        (i # j) =>
            \/ DictGet(listed[i], K_key, EmptyStr) # DictGet(listed[j], K_key, EmptyStr)
            \/ DictGet(listed[i], K_environment_scope, Star)
                  # DictGet(listed[j], K_environment_scope, Star)

\* C30: in the simple YAML export the number of key/value entries written
\* equals the number of exported records, the 'Total' of the header, also
\* when the same key comes in two records with different environment scopes.
C30_SimpleEntryPerRecord ==
    (SimpleWritten /\ DistinctRecords) =>
        /\ written.content.text = header_lines(listed, args.sort)
        /\ Len(written.content.dumped.items) = Len(listed)

====
